---- MODULE Spec2Model ----
(***************************************************************************)
(* Lantern (VS Code extension): the colour engine of src/src/colors.ts and *)
(* the handlers of src/src/lantern.ts that call it.                        *)
(*                                                                         *)
(* Strings are sequences of one-character strings: "#f00" is               *)
(* <<"#","f","0","0">>.  A colour value, an absent colour and a raised     *)
(* error share one record shape, [kind, r, g, b].                          *)
(*                                                                         *)
(* The specifications:                                                     *)
(*   SpecHex  a colour string is typed or stored character by character    *)
(*            and handed to isValidHexColor, hexToRgb and the four call    *)
(*            sites of hexToRgb;                                           *)
(*   SpecRt   an RGB colour is formatted by rgbToHex and parsed back;      *)
(*   SpecGen  one call of generateRandomColorVariant, loop step by step;   *)
(*   SpecFn   one call of a numeric function of the colour engine or of    *)
(*            the Hue client, on inputs drawn from sample sets;            *)
(*   SpecCfg  the settings, and the commands and event handlers of         *)
(*            lantern.ts and extension.ts that read and write them, each   *)
(*            handler run as one step;                                     *)
(*   SpecAi   one call of suggestColorWithAI, from one await to the next,  *)
(*            with the configuration listener;                             *)
(*   SpecTool calls of the language-model tool setWorkspaceColorTool;      *)
(*   SpecHue  one call of enableHue, from one await to the next;           *)
(*   SpecRace two calls of setWorkspaceColor for different paths, each     *)
(*            split at its settings write;                                 *)
(*   SpecApply calls of applyColor on customizations the user and earlier  *)
(*            runs left.                                                   *)
(***************************************************************************)
EXTENDS Integers, Sequences, FiniteSets

VARIABLES
    hex,            \* SpecHex: the string typed by the user or stored in the settings
    site,           \* SpecHex: the function called on hex ("none" before any call)
    out,            \* SpecHex: what that call returned, or the error it let escape
    rgbIn,          \* SpecRt: the RGB colour given to rgbToHex
    hexOut,         \* SpecRt: the string rgbToHex returned
    rgbBack,        \* SpecRt: what hexToRgb made of hexOut
    rtpc,           \* SpecRt: "start", "formatted", "parsed"
    gpc,            \* SpecGen: "loop", "after", "done" ("idle" outside SpecGen)
    baseColor,      \* SpecGen: parameter baseColor
    existingOklch,  \* SpecGen: rgbToOklch(existingColor), or NoOklch (null)
    maxAttempts,    \* SpecGen: parameter maxAttempts
    attempt,        \* SpecGen: the loop counter
    bestColor,      \* SpecGen: local bestColor
    bestDistance,   \* SpecGen: local bestDistance (as a squared distance)
    drawn,          \* SpecGen: history, the candidates the loop drew, in order
    returned,       \* SpecGen: the value returned
    fnIn,           \* SpecFn: the function called and its arguments
    fnOut,          \* SpecFn: what the call returned ([kind |-> "none"] before it)
    enabled,                  \* setting lantern.enabled
    lanternColor,             \* setting lantern.color of the workspace (<<>>: not set)
    workspaceColorMap,        \* setting lantern.workspaceColor: path -> colour (<<>>: no entry)
    peacockMode,              \* setting lantern.peacockMode
    peacockColor,             \* setting peacock.color (<<>>: not set)
    overrideDebuggingColors,  \* setting lantern.overrideDebuggingColors
    hueDefaultColor,          \* setting lantern.hueDefaultColor
    hueLightIds,              \* setting lantern.hueLightIds
    colorCustomizations,      \* setting workbench.colorCustomizations: key -> value (<<>>: absent)
    currentWorkspacePath,     \* Lantern.currentWorkspacePath ("": undefined)
    statusBarText,            \* Lantern.statusBarItem.text ("": no item yet)
    focused,                  \* vscode.window.state.focused
    hueEnabled,               \* setting lantern.hueEnabled
    hueBridgeIp,              \* setting lantern.hueBridgeIp ("": not set)
    hueUsername,              \* setting lantern.hueUsername ("": not set)
    bridge,                   \* Hue.bridge: [ip, username] ("" and "": undefined)
    lights,                   \* the last command sent to the Hue lights
    configEvent,              \* a change of a lantern setting awaits its listener
    lastOp,                   \* history: the last handler or function run, its arguments, its result
    ai,                       \* SpecAi: the call of suggestColorWithAI: its position and locals
    tool,                     \* SpecTool: the last call of setWorkspaceColorTool and its result
    enableHueCall,            \* SpecHue: the call of enableHue: its position, locals, history
    setCalls,                 \* SpecRace: the calls of setWorkspaceColor under way, one per caller
    applyCall                 \* SpecApply: the last call of applyColor: its argument, what it read, whether it wrote

hexVars == <<hex, site, out>>
rtVars  == <<rgbIn, hexOut, rgbBack, rtpc>>
genVars == <<gpc, baseColor, existingOklch, maxAttempts, attempt, bestColor,
             bestDistance, drawn, returned>>
fnVars  == <<fnIn, fnOut>>
\* the settings under lantern.* and peacock.*
settings == <<enabled, lanternColor, workspaceColorMap, peacockMode, peacockColor,
              overrideDebuggingColors, hueDefaultColor, hueLightIds>>
\* the Hue service: its switch, the bridge it holds and the bridge settings
hueService == <<hueEnabled, hueBridgeIp, hueUsername, bridge>>
cfgVars == <<settings, colorCustomizations, currentWorkspacePath, statusBarText,
             focused, hueService, lights, configEvent, lastOp>>
aiVars  == <<ai>>
toolVars == <<tool>>
hueVars == <<enableHueCall>>
raceVars == <<setCalls>>
applyVars == <<applyCall>>
vars    == <<hexVars, rtVars, genVars, fnVars, cfgVars, aiVars, toolVars, hueVars, raceVars,
             applyVars>>
\* what the actions of one specification leave alone
notHex  == <<rtVars, genVars, fnVars, cfgVars, aiVars, toolVars, hueVars, raceVars, applyVars>>
notRt   == <<hexVars, genVars, fnVars, cfgVars, aiVars, toolVars, hueVars, raceVars, applyVars>>
notGen  == <<hexVars, rtVars, fnVars, cfgVars, aiVars, toolVars, hueVars, raceVars, applyVars>>
notFn   == <<hexVars, rtVars, genVars, cfgVars, aiVars, toolVars, hueVars, raceVars, applyVars>>
\* what the colour engine's specifications own: no handler touches it
notCmd  == <<hexVars, rtVars, genVars, fnVars>>
notCfg  == <<notCmd, aiVars, toolVars, hueVars, raceVars, applyVars>>
notAi   == <<notCmd, toolVars, hueVars, raceVars, applyVars>>
notTool == <<notCmd, aiVars, hueVars, raceVars, applyVars>>
notHue  == <<notCmd, aiVars, toolVars, raceVars, applyVars>>
notRace == <<notCmd, aiVars, toolVars, hueVars, applyVars>>
notApply == <<notCmd, aiVars, toolVars, hueVars, raceVars>>

---------------------------------------------------------------------------
(* Bounds of the model *)

\* longest string typed: '#' and a body of 9 characters
MaxLen == 10
\* most characters of a typed string other than the plain digit "a"
MaxSpecial == 3
\* largest maxAttempts passed to generateRandomColorVariant
MaxAttemptsBound == 3

---------------------------------------------------------------------------
(* Values *)

\* RgbColor: r, g, b in 0..255
MaxChannel == 255

Rgb(r, g, b) == [kind |-> "rgb", r |-> r, g |-> g, b |-> b]
Undefined    == [kind |-> "undefined", r |-> 0, g |-> 0, b |-> 0]
Null         == [kind |-> "null", r |-> 0, g |-> 0, b |-> 0]
\* throw new Error('Invalid hex color')
Thrown       == [kind |-> "throw", r |-> 0, g |-> 0, b |-> 0]

Min(S) == CHOOSE x \in S : \A y \in S : x <= y

---------------------------------------------------------------------------
(* Hex strings: colors.ts *)

HexChars == <<"0", "1", "2", "3", "4", "5", "6", "7", "8", "9",
              "a", "b", "c", "d", "e", "f">>
LowerHex == {HexChars[i] : i \in 1..16}
UpperHex == {"A", "B", "C", "D", "E", "F"}

ToLowerCase(c) ==
    CASE c = "A" -> "a" [] c = "B" -> "b" [] c = "C" -> "c"
      [] c = "D" -> "d" [] c = "E" -> "e" [] c = "F" -> "f"
      [] OTHER -> c

\* the character class [a-f\d] under the i flag
IsHexDigit(c) == c \in LowerHex \cup UpperHex

\* the value parseInt(c, 16) gives one hex digit
DigitValue(c) == (CHOOSE i \in 1..16 : HexChars[i] = ToLowerCase(c)) - 1

\* parseInt(s, 16) of a string of hex digits
RECURSIVE parseInt16(_)
parseInt16(s) ==
    IF Len(s) = 0 THEN 0
    ELSE 16 * parseInt16(SubSeq(s, 1, Len(s) - 1)) + DigitValue(s[Len(s)])

AllHex(s) == \A i \in 1..Len(s) : IsHexDigit(s[i])

\* hex.replace('#', ''): the first '#', wherever it is, is removed
RemoveFirstHash(s) ==
    LET at == {i \in 1..Len(s) : s[i] = "#"}
    IN  IF at = {} THEN s
        ELSE SubSeq(s, 1, Min(at) - 1) \o SubSeq(s, Min(at) + 1, Len(s))

hexToRgb(h) ==
    LET cleanHex == RemoveFirstHash(h)
    IN  IF Len(cleanHex) = 3
        THEN IF AllHex(cleanHex)
             THEN Rgb(parseInt16(<<cleanHex[1], cleanHex[1]>>),
                      parseInt16(<<cleanHex[2], cleanHex[2]>>),
                      parseInt16(<<cleanHex[3], cleanHex[3]>>))
             ELSE Thrown
        ELSE IF Len(cleanHex) = 6 /\ AllHex(cleanHex)
             THEN Rgb(parseInt16(SubSeq(cleanHex, 1, 2)),
                      parseInt16(SubSeq(cleanHex, 3, 4)),
                      parseInt16(SubSeq(cleanHex, 5, 6)))
             ELSE Thrown

\* n.toString(16): lowercase digits, no leading zero
RECURSIVE toString16(_)
toString16(n) ==
    IF n < 16 THEN <<HexChars[n + 1]>>
    ELSE toString16(n \div 16) \o <<HexChars[(n % 16) + 1]>>

RECURSIVE padStart(_, _, _)
padStart(s, n, c) == IF Len(s) >= n THEN s ELSE padStart(<<c>> \o s, n, c)

\* a faulty variant of toHex: padStart is left out
toHexNoPad(n) == toString16(n)
\* toHex = (n) => n.toString(16).padStart(2, '0')
toHex(n) == padStart(toString16(n), 2, "0")

rgbToHex(rgb) == <<"#">> \o toHex(rgb.r) \o toHex(rgb.g) \o toHex(rgb.b)

\* a faulty variant of isValidHexColor: the 8-digit form is forgotten
isValidHexColorNo8(s) ==
    /\ Len(s) >= 1
    /\ s[1] = "#"
    /\ Len(s) - 1 \in {3, 6}
    /\ \A i \in 2..Len(s) : IsHexDigit(s[i])

\* isValidHexColor is imported from './colors' by lantern.ts and the tests, and
\* is not in colors.ts: a leading '#', then 3, 6 or 8 characters of [0-9a-fA-F]
isValidHexColor(s) ==
    /\ Len(s) >= 1
    /\ s[1] = "#"
    /\ Len(s) - 1 \in {3, 6, 8}
    /\ \A i \in 2..Len(s) : IsHexDigit(s[i])

\* String.prototype.trim, on the one whitespace character of the model
RECURSIVE trim(_)
trim(s) ==
    IF Len(s) = 0 THEN s
    ELSE IF s[1] = " " THEN trim(Tail(s))
    ELSE IF s[Len(s)] = " " THEN trim(SubSeq(s, 1, Len(s) - 1))
    ELSE s

\* try { return hexToRgb(color) } catch { return grey }
parseCssColor(cssColor) ==
    LET color == trim(cssColor)
    IN  IF Len(color) = 0 THEN Null
        ELSE IF color[1] = "#"
             THEN LET res == hexToRgb(color)
                  IN  IF res.kind = "throw" THEN Rgb(128, 128, 128) ELSE res
             ELSE Rgb(128, 128, 128)

---------------------------------------------------------------------------
(* The call sites of hexToRgb: lantern.ts, config.ts *)

\* a faulty variant of getCurrentWorkspaceColor: the try/catch is left out
getCurrentWorkspaceColorNoCatch(color) ==
    IF Len(color) > 0 /\ isValidHexColor(color)
    THEN hexToRgb(color)
    ELSE Undefined

\* Lantern.getCurrentWorkspaceColor with a workspace open; color is what
\* getWorkspaceColor returned ("" stands for undefined: both are falsy)
getCurrentWorkspaceColor(color) ==
    IF Len(color) > 0 /\ isValidHexColor(color)
    THEN LET res == hexToRgb(color)
         IN  IF res.kind = "throw" THEN Undefined ELSE res
    ELSE Undefined

\* getCurrentThemeColor; statusBarBackground is
\* colorCustomizations['statusBar.background'] ("" when absent)
getCurrentThemeColor(statusBarBackground) ==
    LET defaultColor == Rgb(0, 122, 204)
    IN  IF Len(statusBarBackground) > 0
        THEN LET res == hexToRgb(statusBarBackground)
             IN  IF res.kind = "throw" THEN defaultColor ELSE res
        ELSE defaultColor

\* the try block of Lantern.updateHueLights, the window focused, Hue enabled
\* and configured, some light selected.  The value tells what was done:
\* "setLightColor" with the colour sent, "turnOffLights", or "caught" when the
\* catch clause logged an error.
updateHueLights(color, hueDefault) ==
    LET res      == IF color.kind = "rgb" THEN color ELSE hexToRgb(hueDefault)
        isBlack  == color.kind # "rgb" \/ (color.r = 0 /\ color.g = 0 /\ color.b = 0)
    IN  IF res.kind = "throw" THEN [Undefined EXCEPT !.kind = "caught"]
        ELSE IF ~isBlack THEN [res EXCEPT !.kind = "setLightColor"]
        ELSE [Undefined EXCEPT !.kind = "turnOffLights"]

---------------------------------------------------------------------------
(* SpecHex *)

PlainDigit   == "a"
SpecialChars == {"#", "g", "F", " "}
Special(s)   == Cardinality({i \in 1..Len(s) : s[i] \in SpecialChars})

HexIdle == hex = <<>> /\ site = "none" /\ out = Undefined
RtIdle  == rgbIn = Undefined /\ hexOut = <<>> /\ rgbBack = Undefined /\ rtpc = "idle"

\* the colours Lantern.applyWorkspaceColor hands to updateHueLights
HueColors == {Undefined, Rgb(0, 0, 0), Rgb(255, 0, 0)}

TypeChar ==
    /\ site = "none"
    /\ Len(hex) < MaxLen
    /\ \E c \in {PlainDigit} \cup SpecialChars :
          /\ c \in SpecialChars => Special(hex) < MaxSpecial
          /\ hex' = Append(hex, c)
    /\ UNCHANGED <<site, out>>
    /\ UNCHANGED notHex

CallIsValidHexColor ==
    /\ site = "none"
    /\ site' = "isValidHexColor"
    /\ out' = [Undefined EXCEPT !.kind = IF isValidHexColor(hex) THEN "true" ELSE "false"]
    /\ UNCHANGED hex
    /\ UNCHANGED notHex

CallHexToRgb ==
    /\ site = "none"
    /\ site' = "hexToRgb"
    /\ out' = hexToRgb(hex)
    /\ UNCHANGED hex
    /\ UNCHANGED notHex

CallGetCurrentWorkspaceColor ==
    /\ site = "none"
    /\ site' = "getCurrentWorkspaceColor"
    /\ out' = getCurrentWorkspaceColor(hex)
    /\ UNCHANGED hex
    /\ UNCHANGED notHex

CallGetCurrentThemeColor ==
    /\ site = "none"
    /\ site' = "getCurrentThemeColor"
    /\ out' = getCurrentThemeColor(hex)
    /\ UNCHANGED hex
    /\ UNCHANGED notHex

CallParseCssColor ==
    /\ site = "none"
    /\ site' = "parseCssColor"
    /\ out' = parseCssColor(hex)
    /\ UNCHANGED hex
    /\ UNCHANGED notHex

CallUpdateHueLights ==
    /\ site = "none"
    /\ site' = "updateHueLights"
    /\ \E color \in HueColors : out' = updateHueLights(color, hex)
    /\ UNCHANGED hex
    /\ UNCHANGED notHex

HexInit == HexIdle
HexNext ==
    \/ TypeChar
    \/ CallIsValidHexColor
    \/ CallHexToRgb
    \/ CallGetCurrentWorkspaceColor
    \/ CallGetCurrentThemeColor
    \/ CallParseCssColor
    \/ CallUpdateHueLights

---------------------------------------------------------------------------
(* SpecRt: rgbToHex, then hexToRgb *)

\* the RGB inputs: one channel takes every value, the other two an end of the range
RgbInputs ==
    {[Rgb(base[1], base[2], base[3]) EXCEPT ![ch] = v] :
        base \in {0, MaxChannel} \X {0, MaxChannel} \X {0, MaxChannel},
        ch \in {"r", "g", "b"}, v \in 0..MaxChannel}

RtInit ==
    /\ rgbIn \in RgbInputs
    /\ hexOut = <<>>
    /\ rgbBack = Undefined
    /\ rtpc = "start"

Format ==
    /\ rtpc = "start"
    /\ hexOut' = rgbToHex(rgbIn)
    /\ rtpc' = "formatted"
    /\ UNCHANGED <<rgbIn, rgbBack>>
    /\ UNCHANGED notRt

Parse ==
    /\ rtpc = "formatted"
    /\ rgbBack' = hexToRgb(hexOut)
    /\ rtpc' = "parsed"
    /\ UNCHANGED <<rgbIn, hexOut>>
    /\ UNCHANGED notRt

RtNext == Format \/ Parse

---------------------------------------------------------------------------
(* The random colour generator: colors.ts *)
(*                                                                         *)
(* Lightness and chroma are counted in thousandths, hue in degrees, and a  *)
(* value of Math.random() in tenths, so that generateStatusBarColor is     *)
(* exact in integers.  A distance d is kept as (9000 * d)^2: the code      *)
(* only compares distances, and squaring keeps their order.                *)

minLightness == 300
maxLightness == 800
minChroma    == 120
maxChroma    == 350

Oklch(l, c, h) == [l |-> l, c |-> c, h |-> h]
\* existingOklch when no existingColor is given (null)
NoOklch == Oklch(-1, -1, -1)

\* values of Math.random(), in tenths: both ends of [0, 1) and the middle
RandomSamples == {0, 5, 9}

\* a faulty variant of generateStatusBarColor: a wider lightness range
generateStatusBarColorWide(r1, r2, r3) ==
    Oklch(minLightness + (r1 * (950 - minLightness)) \div 10,
          minChroma + (r2 * (maxChroma - minChroma)) \div 10,
          (r3 * 360) \div 10)

\* r1, r2, r3: the three values Math.random() returns, in tenths
generateStatusBarColor(r1, r2, r3) ==
    Oklch(minLightness + (r1 * (maxLightness - minLightness)) \div 10,
          minChroma + (r2 * (maxChroma - minChroma)) \div 10,
          (r3 * 360) \div 10)

Abs(x) == IF x < 0 THEN -x ELSE x

\* a faulty variant of calculateColorDistance: the hue difference is not
\* taken round the circle
calculateColorDistanceNoWrap(color1, color2) ==
    LET lightnessDiff == 9 * Abs(color1.l - color2.l) * 2
        chromaDiff    == 9 * Abs(color1.c - color2.c)
        hueDiff       == 50 * Abs(color1.h - color2.h)
    IN  lightnessDiff * lightnessDiff + chromaDiff * chromaDiff + hueDiff * hueDiff

\* a faulty variant of calculateColorDistance: Math.abs is left out of the
\* hue difference
calculateColorDistanceSigned(color1, color2) ==
    LET lightnessDiff == 9 * Abs(color1.l - color2.l) * 2
        chromaDiff    == 9 * Abs(color1.c - color2.c)
        rawHue        == color1.h - color2.h
        hueDiff       == 50 * (IF rawHue > 180 THEN 360 - rawHue ELSE rawHue)
    IN  lightnessDiff * lightnessDiff + chromaDiff * chromaDiff + hueDiff * hueDiff

\* (9000 * calculateColorDistance(color1, color2))^2
calculateColorDistance(color1, color2) ==
    LET lightnessWeight == 2
        chromaWeight    == 1
        hueWeight       == 1
        lightnessDiff == 9 * Abs(color1.l - color2.l) * lightnessWeight
        chromaDiff    == 9 * Abs(color1.c - color2.c) * chromaWeight
        rawHue        == Abs(color1.h - color2.h)
        hueDiff       == 50 * (IF rawHue > 180 THEN 360 - rawHue ELSE rawHue) * hueWeight
    IN  lightnessDiff * lightnessDiff + chromaDiff * chromaDiff + hueDiff * hueDiff

\* the distance 1 used when there is no existing colour, and the threshold 0.5
DistanceOne       == 9000 * 9000
DistanceThreshold == 4500 * 4500

\* oklchToRgb is floating-point arithmetic; the generator only passes its value
\* on, so the value is kept as the term "oklchToRgb of this candidate"
oklchToRgb(oklch) == [kind |-> "oklchToRgb", of |-> oklch]

\* rgbToOklch of the colours the generator is asked to avoid, rounded to the
\* model's units: red (255,0,0), the default theme blue (0,122,204),
\* (147,87,153), which is a colour generateStatusBarColor can draw, and
\* (150,90,155), which is close to it
ExistingSamples == {Oklch(628, 258, 29), Oklch(567, 155, 249), Oklch(550, 120, 324),
                    Oklch(559, 119, 324)}

BaseColors == {Rgb(0, 122, 204)}

\* faulty variants of IsBetter and IsGoodDistance
IsBetterAlways(distance, best) == TRUE
IsGoodDistanceNever(distance) == FALSE
\* a faulty variant of IsBetter: no candidate is ever kept
IsBetterNever(distance, best) == FALSE

\* distance > bestDistance
IsBetter(distance, best) == distance > best
\* distance > 0.5
IsGoodDistance(distance) == distance > DistanceThreshold
\* attempt < maxAttempts
LoopCondition(att, maxAtt) == att < maxAtt

GenIdle ==
    /\ gpc = "idle"
    /\ baseColor = Undefined
    /\ existingOklch = NoOklch
    /\ maxAttempts = 0
    /\ attempt = 0
    /\ bestColor = Undefined
    /\ bestDistance = 0
    /\ drawn = <<>>
    /\ returned = Undefined

\* the call: the parameters, then lines 114-118
GenInit ==
    /\ gpc = "loop"
    /\ baseColor \in BaseColors
    /\ existingOklch \in ExistingSamples \cup {NoOklch}
    /\ maxAttempts \in 0..MaxAttemptsBound
    /\ attempt = 0
    /\ bestColor = baseColor
    /\ bestDistance = 0
    /\ drawn = <<>>
    /\ returned = Undefined

\* one pass of the for loop's body
Iterate ==
    /\ gpc = "loop"
    /\ LoopCondition(attempt, maxAttempts)
    /\ \E r1 \in RandomSamples, r2 \in RandomSamples, r3 \in RandomSamples :
          LET newOklch == generateStatusBarColor(r1, r2, r3)
              newColor == oklchToRgb(newOklch)
              distance == IF existingOklch # NoOklch
                          THEN calculateColorDistance(newOklch, existingOklch)
                          ELSE DistanceOne
          IN  /\ drawn' = Append(drawn, newOklch)
              /\ IF IsBetter(distance, bestDistance)
                 THEN bestDistance' = distance /\ bestColor' = newColor
                 ELSE UNCHANGED <<bestDistance, bestColor>>
              /\ IF IsGoodDistance(distance)
                 THEN gpc' = "after" /\ UNCHANGED attempt
                 ELSE gpc' = "loop" /\ attempt' = attempt + 1
    /\ UNCHANGED <<baseColor, existingOklch, maxAttempts, returned>>
    /\ UNCHANGED notGen

\* the for loop's condition fails
LoopExit ==
    /\ gpc = "loop"
    /\ ~LoopCondition(attempt, maxAttempts)
    /\ gpc' = "after"
    /\ UNCHANGED <<baseColor, existingOklch, maxAttempts, attempt, bestColor,
                   bestDistance, drawn, returned>>
    /\ UNCHANGED notGen

\* if (!existingOklch) return oklchToRgb(generateStatusBarColor())
ReturnRandom ==
    /\ gpc = "after"
    /\ existingOklch = NoOklch
    /\ \E r1 \in RandomSamples, r2 \in RandomSamples, r3 \in RandomSamples :
          returned' = oklchToRgb(generateStatusBarColor(r1, r2, r3))
    /\ gpc' = "done"
    /\ UNCHANGED <<baseColor, existingOklch, maxAttempts, attempt, bestColor,
                   bestDistance, drawn>>
    /\ UNCHANGED notGen

\* return bestColor
ReturnBest ==
    /\ gpc = "after"
    /\ existingOklch # NoOklch
    /\ returned' = bestColor
    /\ gpc' = "done"
    /\ UNCHANGED <<baseColor, existingOklch, maxAttempts, attempt, bestColor,
                   bestDistance, drawn>>
    /\ UNCHANGED notGen

GenNext == Iterate \/ LoopExit \/ ReturnRandom \/ ReturnBest

---------------------------------------------------------------------------
(* JavaScript numbers, as far as oklchToRgb needs them *)

\* an ordinary finite number, as a count of some unit
Fin(n)    == [cls |-> "fin", v |-> n]
\* a finite number of magnitude 1e103 or more, of the given sign: its cube is
\* beyond Number.MAX_VALUE
Big(sign) == [cls |-> "big", v |-> sign]
Inf(sign) == [cls |-> "inf", v |-> sign]
NaN       == [cls |-> "nan", v |-> 0]

\* x * x * x of a number that is not ordinary
Cube(x) == IF x.cls = "nan" THEN NaN ELSE Inf(x.v)
\* k * x for a finite constant k of the given sign, x infinite or NaN
Times(sign, x) == IF x.cls = "nan" THEN NaN ELSE Inf(sign * x.v)
\* x + y, x and y infinite or NaN
Plus(x, y) ==
    IF x.cls = "nan" \/ y.cls = "nan" THEN NaN
    ELSE IF x.v = y.v THEN x
    ELSE NaN

\* Math.round of a number counted in hundredths, the result in units
MathRound(x) == IF x.cls = "fin" THEN Fin((x.v + 50) \div 100) ELSE x
\* Math.min(n, x) and Math.max(n, x), n and x in units
MathMin(n, x) ==
    IF x.cls = "nan" THEN NaN
    ELSE IF x.cls = "fin" THEN (IF x.v < n THEN x ELSE Fin(n))
    ELSE IF x.v < 0 THEN x ELSE Fin(n)
MathMax(n, x) ==
    IF x.cls = "nan" THEN NaN
    ELSE IF x.cls = "fin" THEN (IF x.v > n THEN x ELSE Fin(n))
    ELSE IF x.v > 0 THEN x ELSE Fin(n)

---------------------------------------------------------------------------
(* oklchToRgb and rgbToOklch: colors.ts *)

\* Lines 53-76 of oklchToRgb are floating-point arithmetic (cos, sin, pow).
\* Their values at the inputs of the model: <<l, c, h, r * 255, g * 255,
\* bSrgb * 255>>, l and c in thousandths, h in degrees, the last three in
\* hundredths.  The first 27 are the candidates generateStatusBarColor draws
\* from RandomSamples, the others lie outside the sRGB gamut.
SrgbSamples ==
    {<<300, 120, 0, 8830, 130, 4330>>,
     <<300, 120, 180, -9420, 6262, 4810>>,
     <<300, 120, 324, 7285, 1444, 7862>>,
     <<300, 235, 0, 11880, -9915, 4098>>,
     <<300, 235, 180, -22936, 7315, 5038>>,
     <<300, 235, 324, 9372, -7586, 10822>>,
     <<300, 327, 0, 14090, -19277, 3911>>,
     <<300, 327, 180, -31432, 7952, 5221>>,
     <<300, 327, 324, 10899, -16514, 13183>>,
     <<550, 120, 0, 16826, 8024, 11061>>,
     <<550, 120, 180, -10351, 13540, 11618>>,
     <<550, 120, 324, 14732, 8706, 15282>>,
     <<550, 235, 0, 20928, -3259, 10792>>,
     <<550, 235, 180, -64720, 15137, 11885>>,
     <<550, 235, 324, 17469, 3559, 18816>>,
     <<550, 327, 0, 23851, -29278, 10577>>,
     <<550, 327, 180, -103051, 16186, 12097>>,
     <<550, 327, 324, 19464, -17510, 21580>>,
     <<750, 120, 0, 23561, 14060, 17073>>,
     <<750, 120, 180, 6144, 19849, 17675>>,
     <<750, 120, 324, 21144, 14718, 21688>>,
     <<750, 235, 0, 28331, 9025, 16783>>,
     <<750, 235, 180, -91349, 21757, 17963>>,
     <<750, 235, 324, 24271, 10975, 25578>>,
     <<750, 327, 0, 31737, -11584, 16551>>,
     <<750, 327, 180, -169458, 23057, 18193>>,
     <<750, 327, 324, 26565, 5253, 28605>>,
     <<-500, 0, -90, -41182, -41182, -41182>>,
     <<-500, 0, 0, -41182, -41182, -41182>>,
     <<-500, 0, 400, -41182, -41182, -41182>>,
     <<-500, 400, -90, -154329, -7601, 7790>>,
     <<-500, 400, 0, 15536, -103135, -49534>>,
     <<-500, 400, 400, 14006, -56602, -318846>>,
     <<0, 0, -90, 0, 0, 0>>,
     <<0, 0, 0, 0, 0, 0>>,
     <<0, 0, 400, 0, 0, 0>>,
     <<0, 400, -90, 4766, -15220, 13322>>,
     <<0, 400, 0, 3460, -1725, -14>>,
     <<0, 400, 400, 2892, 2293, -26115>>,
     <<1000, 0, -90, 25500, 25500, 25500>>,
     <<1000, 0, 0, 25500, 25500, 25500>>,
     <<1000, 0, 400, 25500, 25500, 25500>>,
     <<1000, 400, -90, 15917, 21177, 52047>>,
     <<1000, 400, 0, 44686, 3215, 24418>>,
     <<1000, 400, 400, 45825, 8403, -53886>>,
     <<2000, 0, -90, 62583, 62583, 62583>>,
     <<2000, 0, 0, 62583, 62583, 62583>>,
     <<2000, 0, 400, 62583, 62583, 62583>>,
     <<2000, 400, -90, 50151, 60393, 94899>>,
     <<2000, 400, 0, 88159, 47710, 61298>>,
     <<2000, 400, 400, 89343, 50293, 36456>>}

\* Math.max(0, Math.min(255, Math.round(x))), lines 79-81
ClampChannel(x) == MathMax(0, MathMin(255, MathRound(x)))

\* <<r * 255, g * 255, bSrgb * 255>>, lines 53-76.  Where l is not an
\* ordinary number the model keeps c = 0 and h = 0, so that a = bOklab = 0 and
\* lCube = mCube = sCube = l; the three sums of lines 70-72 then add the cube
\* with the signs of their coefficients, and lines 74-76 keep NaN and the
\* infinities.
Times255(oklch) ==
    IF oklch.l.cls = "fin"
    THEN LET t == CHOOSE t \in SrgbSamples :
                     t[1] = oklch.l.v /\ t[2] = oklch.c.v /\ t[3] = oklch.h.v
         IN  <<Fin(t[4]), Fin(t[5]), Fin(t[6])>>
    ELSE LET lLinear == Cube(oklch.l)
             rLinear == Plus(Plus(Times(1, lLinear), Times(-1, lLinear)), Times(1, lLinear))
             gLinear == Plus(Plus(Times(-1, lLinear), Times(1, lLinear)), Times(-1, lLinear))
             bLinear == Plus(Plus(Times(-1, lLinear), Times(-1, lLinear)), Times(1, lLinear))
         IN  <<rLinear, gLinear, bLinear>>

\* the value oklchToRgb returns: three channels, each a number
oklchToRgbValue(oklch) ==
    LET t == Times255(oklch)
    IN  [r |-> ClampChannel(t[1]), g |-> ClampChannel(t[2]), b |-> ClampChannel(t[3])]

\* rgbToOklch is floating-point arithmetic (pow, cbrt, atan2).  Its values at
\* the colours of the model, rounded to thousandths and degrees:
\* <<r, g, b, l, c, h>>
OklchSamples ==
    {<<0, 0, 0, 0, 0, 0>>,
     <<0, 0, 78, 192, 133, 264>>,
     <<0, 63, 48, 327, 64, 171>>,
     <<0, 73, 50, 359, 76, 164>>,
     <<0, 80, 52, 381, 84, 161>>,
     <<0, 122, 204, 567, 155, 249>>,
     <<0, 135, 116, 558, 103, 178>>,
     <<0, 151, 119, 602, 118, 171>>,
     <<0, 162, 121, 632, 130, 167>>,
     <<0, 218, 180, 793, 151, 174>>,
     <<0, 231, 182, 826, 163, 170>>,
     <<29, 23, 0, 206, 42, 96>>,
     <<35, 0, 0, 161, 66, 29>>,
     <<48, 0, 133, 309, 181, 285>>,
     <<61, 198, 177, 749, 120, 180>>,
     <<73, 14, 79, 300, 121, 324>>,
     <<88, 1, 43, 299, 120, 0>>,
     <<94, 0, 108, 349, 166, 321>>,
     <<100, 150, 200, 658, 92, 249>>,
     <<109, 0, 132, 392, 190, 319>>,
     <<119, 0, 41, 363, 145, 12>>,
     <<140, 0, 0, 402, 165, 29>>,
     <<141, 0, 39, 408, 163, 17>>,
     <<147, 87, 153, 550, 120, 324>>,
     <<150, 90, 155, 559, 119, 324>>,
     <<155, 0, 0, 433, 178, 29>>,
     <<159, 212, 255, 848, 82, 243>>,
     <<168, 80, 111, 549, 120, 360>>,
     <<175, 36, 188, 551, 235, 324>>,
     <<195, 0, 216, 587, 277, 323>>,
     <<209, 0, 108, 557, 225, 1>>,
     <<211, 147, 217, 749, 120, 324>>,
     <<236, 141, 171, 751, 120, 0>>,
     <<239, 0, 106, 611, 245, 7>>,
     <<243, 110, 255, 750, 234, 324>>,
     <<255, 0, 0, 628, 258, 29>>,
     <<255, 0, 166, 658, 274, 351>>,
     <<255, 32, 244, 702, 307, 331>>,
     <<255, 53, 255, 717, 302, 328>>,
     <<255, 84, 0, 675, 218, 39>>,
     <<255, 90, 168, 708, 212, 355>>,
     <<255, 255, 255, 1000, 0, 90>>}

rgbToOklch(rgb) ==
    LET t == CHOOSE t \in OklchSamples : t[1] = rgb.r /\ t[2] = rgb.g /\ t[3] = rgb.b
    IN  Oklch(t[4], t[5], t[6])

\* the RGB colour a value of generateRandomColorVariant stands for
RgbOf(value) ==
    IF value.kind = "oklchToRgb"
    THEN LET x == oklchToRgbValue([l |-> Fin(value.of.l), c |-> Fin(value.of.c),
                                   h |-> Fin(value.of.h)])
         IN  Rgb(x.r.v, x.g.v, x.b.v)
    ELSE value

---------------------------------------------------------------------------
(* getContrastingTextColor: colors.ts; rgbToXy: hue.ts *)

White == <<"#", "f", "f", "f", "f", "f", "f">>
Black == <<"#", "0", "0", "0", "0", "0", "0">>

\* a faulty variant of getContrastingTextColor: the two answers are swapped
getContrastingTextColorSwapped(background) ==
    IF 299 * background.r + 587 * background.g + 114 * background.b > 127500
    THEN White ELSE Black

\* getContrastingTextColor is imported from './colors' by lantern.ts and the
\* tests, and is not in colors.ts: the luminance 0.299 R + 0.587 G + 0.114 B
\* (here in thousandths), black text above the midpoint 127.5, white text below
getContrastingTextColor(background) ==
    IF 299 * background.r + 587 * background.g + 114 * background.b > 127500
    THEN Black ELSE White

\* lines 199-201 of rgbToXy are floating-point arithmetic (pow).  Their values
\* at the channels of the model, in ten-thousandths: <<channel, gamma>>;
\* 10 / 255 is the last channel of the linear branch, 11 / 255 the first of pow
GammaSamples == {<<0, 0>>, <<1, 3>>, <<10, 30>>, <<11, 33>>, <<128, 2159>>, <<255, 10000>>}
Gamma(channel) == (CHOOSE t \in GammaSamples : t[1] = channel)[2]

\* X, Y, Z of lines 204-206, the coefficients in thousandths
Xyz(rgb) ==
    LET rGamma == Gamma(rgb.r)
        gGamma == Gamma(rgb.g)
        bGamma == Gamma(rgb.b)
    IN  [X |-> rGamma * 650 + gGamma * 103 + bGamma * 197,
         Y |-> rGamma * 234 + gGamma * 743 + bGamma * 23,
         Z |-> rGamma * 0 + gGamma * 53 + bGamma * 1036]

\* the first k decimals of r / den, 0 <= r < den
RECURSIVE Decimals(_, _, _)
Decimals(r, den, k) ==
    IF k = 0 THEN 0
    ELSE LET rest == Decimals((r * 10) % den, den, k - 1)
             digit == (r * 10) \div den
             RECURSIVE Shift(_, _)
             Shift(d, n) == IF n = 0 THEN d ELSE Shift(d * 10, n - 1)
         IN  Shift(digit, k - 1) + rest

\* num / den in millionths, 0 <= num <= den
Quotient(num, den) == (num \div den) * 1000000 + Decimals(num % den, den, 6)

\* the white point [0.3127, 0.329], in millionths
D65 == [kind |-> "xy", x |-> 312700, y |-> 329000]

\* a faulty variant of rgbToXy: no fallback, 0 / 0 is NaN (here -1)
rgbToXyNoFallback(rgb) ==
    LET xyz == Xyz(rgb)
        sum == xyz.X + xyz.Y + xyz.Z
    IN  IF sum = 0 THEN [kind |-> "xy", x |-> -1, y |-> -1]
        ELSE [kind |-> "xy", x |-> Quotient(xyz.X, sum), y |-> Quotient(xyz.Y, sum)]

\* Hue.rgbToXy; x and y in millionths
rgbToXy(rgb) ==
    LET xyz == Xyz(rgb)
        sum == xyz.X + xyz.Y + xyz.Z
        Clamp(v) == IF v > 1000000 THEN 1000000 ELSE IF v < 0 THEN 0 ELSE v
    IN  IF sum = 0 THEN D65
        ELSE [kind |-> "xy", x |-> Clamp(Quotient(xyz.X, sum)),
                             y |-> Clamp(Quotient(xyz.Y, sum))]

---------------------------------------------------------------------------
(* The Hue intensity: hue.ts, config.ts, lantern.ts *)

\* a faulty variant of hueBrightness: the product is truncated, not rounded
hueBrightnessTruncated(intensity) ==
    IF intensity = 0 THEN 0 ELSE (254 * intensity) \div 100
\* const hueBrightness = intensity === 0 ? 0 : Math.round((intensity / 100) * 254);
\* intensity a whole number
hueBrightness(intensity) ==
    IF intensity = 0 THEN 0 ELSE MathRound(Fin(254 * intensity)).v

\* the state Hue.setLightColor puts to each light: on and bri
setLightColorState(intensity) ==
    LET brightness == hueBrightness(intensity)
    IN  [kind |-> "state",
         on   |-> brightness > 0,
         bri  |-> IF brightness > 0 THEN brightness ELSE 1]

\* config.ts setHueIntensity: the value written to lantern.hueIntensity
clampedIntensity(intensity) == MathMax(0, MathMin(100, intensity))

\* validateInput of Lantern.setHueIntensity accepts the text; num is
\* parseInt(value, 10)
ValidIntensity(num) == num.cls = "fin" /\ ~(num.v < 0 \/ num.v > 100)

\* Lantern.setHueIntensity, Hue enabled and configured: the input box gives
\* back only a text that validateInput accepts, or undefined
LanternSetHueIntensity(num) ==
    IF ValidIntensity(num)
    THEN [kind |-> "stored", value |-> clampedIntensity(num)]
    ELSE [kind |-> "cancelled"]

---------------------------------------------------------------------------
(* SpecFn: one call of a numeric function *)

\* the stored intensities: the whole numbers the command can store
Intensities == 0..100
\* what parseInt makes of the text typed in the input box
TypedIntensities == {NaN} \cup {Fin(n) : n \in -3..103}
\* the numbers config.ts setHueIntensity is called with
PassedIntensities == {Fin(n) : n \in {-1000, -1, 0, 1, 50, 99, 100, 101, 255, 1000}}

\* OKLCH colours for calculateColorDistance: the ends and the middle of the
\* lightness and chroma ranges, hues on both sides of the half circle and at
\* both ends of [0, 360]
OklchPoints ==
    {Oklch(l, c, h) : l \in {0, 400, 500, 600, 1000}, c \in {0, 100, 200, 400},
                      h \in {0, 5, 180, 181, 240, 355, 360}}

\* inputs of oklchToRgb: the rows of SrgbSamples, and a lightness that is not
\* an ordinary number
OklchInputs ==
    {[l |-> Fin(t[1]), c |-> Fin(t[2]), h |-> Fin(t[3])] : t \in SrgbSamples}
    \cup {[l |-> x, c |-> Fin(0), h |-> Fin(0)] :
             x \in {Big(1), Big(-1), Inf(1), Inf(-1), NaN}}

\* channels of the backgrounds given to getContrastingTextColor: those of the
\* test suite
ContrastChannels == {0, 50, 128, 165, 200, 255}
\* channels of the colours given to rgbToXy: those of GammaSamples
XyChannels == {t[1] : t \in GammaSamples}

FnInputs ==
    {[fn |-> "calculateColorDistance", color1 |-> a, color2 |-> b] :
        a \in OklchPoints, b \in OklchPoints}
    \cup {[fn |-> "oklchToRgb", oklch |-> x] : x \in OklchInputs}
    \cup {[fn |-> "getContrastingTextColor", background |-> Rgb(r, g, b)] :
             r \in ContrastChannels, g \in ContrastChannels, b \in ContrastChannels}
    \cup {[fn |-> "rgbToXy", rgb |-> Rgb(r, g, b)] :
             r \in XyChannels, g \in XyChannels, b \in XyChannels}
    \cup {[fn |-> "setLightColor", intensity |-> i] : i \in Intensities}
    \cup {[fn |-> "Lantern.setHueIntensity", num |-> x] : x \in TypedIntensities}
    \cup {[fn |-> "setHueIntensity", passed |-> x] : x \in PassedIntensities}

NoResult == [kind |-> "none"]

FnIdle == fnIn = [fn |-> "none"] /\ fnOut = NoResult

FnInit == fnIn \in FnInputs /\ fnOut = NoResult

\* the distance is asked for both ways round, and of color1 to itself
CallCalculateColorDistance ==
    /\ fnIn.fn = "calculateColorDistance"
    /\ fnOut.kind = "none"
    /\ fnOut' = [kind    |-> "distance",
                 forward |-> calculateColorDistance(fnIn.color1, fnIn.color2),
                 back    |-> calculateColorDistance(fnIn.color2, fnIn.color1),
                 self    |-> calculateColorDistance(fnIn.color1, fnIn.color1)]
    /\ UNCHANGED fnIn
    /\ UNCHANGED notFn

CallOklchToRgb ==
    /\ fnIn.fn = "oklchToRgb"
    /\ fnOut.kind = "none"
    /\ fnOut' = [kind |-> "channels", rgb |-> oklchToRgbValue(fnIn.oklch)]
    /\ UNCHANGED fnIn
    /\ UNCHANGED notFn

CallGetContrastingTextColor ==
    /\ fnIn.fn = "getContrastingTextColor"
    /\ fnOut.kind = "none"
    /\ fnOut' = [kind |-> "text", color |-> getContrastingTextColor(fnIn.background)]
    /\ UNCHANGED fnIn
    /\ UNCHANGED notFn

CallRgbToXy ==
    /\ fnIn.fn = "rgbToXy"
    /\ fnOut.kind = "none"
    /\ fnOut' = rgbToXy(fnIn.rgb)
    /\ UNCHANGED fnIn
    /\ UNCHANGED notFn

CallSetLightColor ==
    /\ fnIn.fn = "setLightColor"
    /\ fnOut.kind = "none"
    /\ fnOut' = setLightColorState(fnIn.intensity)
    /\ UNCHANGED fnIn
    /\ UNCHANGED notFn

CallLanternSetHueIntensity ==
    /\ fnIn.fn = "Lantern.setHueIntensity"
    /\ fnOut.kind = "none"
    /\ fnOut' = LanternSetHueIntensity(fnIn.num)
    /\ UNCHANGED fnIn
    /\ UNCHANGED notFn

CallSetHueIntensity ==
    /\ fnIn.fn = "setHueIntensity"
    /\ fnOut.kind = "none"
    /\ fnOut' = [kind |-> "stored", value |-> clampedIntensity(fnIn.passed)]
    /\ UNCHANGED fnIn
    /\ UNCHANGED notFn

FnNext ==
    \/ CallCalculateColorDistance
    \/ CallOklchToRgb
    \/ CallGetContrastingTextColor
    \/ CallRgbToXy
    \/ CallSetLightColor
    \/ CallLanternSetHueIntensity
    \/ CallSetHueIntensity

---------------------------------------------------------------------------
(* The settings: config.ts *)

Red   == <<"#", "f", "f", "0", "0", "0", "0">>
Green == <<"#", "0", "0", "f", "f", "0", "0">>
\* the colours stored in the settings
StoredColors == {Red, Green}
\* stored colours in the other forms isValidHexColor accepts: three digits,
\* upper case, eight digits (the README's example of lantern.color)
ShortRed == <<"#", "f", "0", "0">>
UpperRed == <<"#", "F", "F", "0", "0", "0", "0">>
AlphaRed == <<"#", "b", "e", "0", "a", "0", "a", "f", "f">>
\* a setting that is not set: undefined and '' are both falsy
NotSet == <<>>

\* the workspace paths; "/a" is the one that can be open in this window
Paths  == {"/a", "/b"}
NoPath == ""

\* the keys of workbench.colorCustomizations: the four Lantern writes, and one
\* it does not
LanternKeys == {"statusBar.background", "statusBar.foreground",
                "statusBar.debuggingBackground", "statusBar.debuggingForeground"}
Keys == LanternKeys \cup {"editor.background"}

getEnabled == enabled
getPeacockMode == peacockMode
getOverrideDebuggingColors == overrideDebuggingColors
getHueDefaultColor == hueDefaultColor
getHueLightIds == hueLightIds
getColorCustomizations == colorCustomizations
getWorkspaceColorMap == workspaceColorMap

\* config.get('color') || undefined
getWorkspaceSpecificColor == lanternColor

\* a faulty variant of getWorkspaceColor: the map is looked up first
getWorkspaceColorMapFirst(workspacePath) ==
    IF getWorkspaceColorMap[workspacePath] # NotSet
    THEN getWorkspaceColorMap[workspacePath]
    ELSE getWorkspaceSpecificColor

getWorkspaceColor(workspacePath) ==
    LET workspaceSpecificColor == getWorkspaceSpecificColor
    IN  IF workspaceSpecificColor # NotSet THEN workspaceSpecificColor
        ELSE IF getWorkspaceColorMap[workspacePath] # NotSet
             THEN getWorkspaceColorMap[workspacePath]
             ELSE NotSet

\* a faulty variant of HasWorkspaceSpecificSetting: the setting is never seen
HasWorkspaceSpecificSettingNever(workspaceSpecificColor) == FALSE
\* getWorkspaceSpecificColor() !== undefined
HasWorkspaceSpecificSetting(workspaceSpecificColor) == workspaceSpecificColor # NotSet

\* setWorkspaceColor; color is NotSet for undefined.  It makes one settings
\* write; a write under lantern.* raises a configuration event.
setWorkspaceColor(workspacePath, color) ==
    IF getPeacockMode
    THEN /\ peacockColor' = color
         /\ UNCHANGED <<lanternColor, workspaceColorMap, configEvent>>
    ELSE IF HasWorkspaceSpecificSetting(getWorkspaceSpecificColor)
         THEN /\ lanternColor' = color
              /\ configEvent' = TRUE
              /\ UNCHANGED <<workspaceColorMap, peacockColor>>
         ELSE /\ workspaceColorMap' = [getWorkspaceColorMap EXCEPT ![workspacePath] = color]
              /\ configEvent' = TRUE
              /\ UNCHANGED <<lanternColor, peacockColor>>

---------------------------------------------------------------------------
(* The handlers: lantern.ts, extension.ts *)

\* a faulty variant of applyColor: nothing is written
applyColorNoWrite(color) == getColorCustomizations
\* Lantern.applyColor: the value written to workbench.colorCustomizations, or
\* the value it has when no write is made
applyColor(color) ==
    LET currentColorCustomizations == getColorCustomizations
    IN  IF color.kind = "rgb"
        THEN LET hexColor  == rgbToHex(color)
                 textColor == getContrastingTextColor(color)
             IN  [key \in Keys |->
                    IF key = "statusBar.background" THEN hexColor
                    ELSE IF key = "statusBar.foreground" THEN textColor
                    ELSE IF getOverrideDebuggingColors /\ key = "statusBar.debuggingBackground"
                    THEN hexColor
                    ELSE IF getOverrideDebuggingColors /\ key = "statusBar.debuggingForeground"
                    THEN textColor
                    ELSE currentColorCustomizations[key]]
        ELSE [key \in Keys |->
                IF key \in {"statusBar.background", "statusBar.foreground"} THEN NotSet
                ELSE IF getOverrideDebuggingColors
                        /\ key \in {"statusBar.debuggingBackground",
                                    "statusBar.debuggingForeground"}
                THEN NotSet
                ELSE currentColorCustomizations[key]]

\* a faulty variant of hasChanges: the settings are written on every call
hasChangesAlways(color) == TRUE
\* Lantern.applyColor: whether it calls updateColorCustomizations
hasChanges(color) ==
    LET currentColorCustomizations == getColorCustomizations
    IN  IF color.kind = "rgb"
        THEN TRUE
        ELSE \/ currentColorCustomizations["statusBar.background"] # NotSet
             \/ currentColorCustomizations["statusBar.foreground"] # NotSet
             \/ /\ getOverrideDebuggingColors
                /\ \/ currentColorCustomizations["statusBar.debuggingBackground"] # NotSet
                   \/ currentColorCustomizations["statusBar.debuggingForeground"] # NotSet

\* Hue.bridge when no bridge is configured, and a bridge set up earlier
NoBridge == [ip |-> "", username |-> ""]
KnownBridge == [ip |-> "10.0.0.1", username |-> "user1"]

\* Hue.isEnabled and Hue.isConfigured
isEnabled == hueEnabled
isConfigured == bridge.ip # "" /\ bridge.username # ""
\* the second guard of Lantern.updateHueLights
hueReady == isEnabled /\ isConfigured

\* a faulty variant of HueActs: the focus of the window is not looked at
HueActsUnfocused == hueReady /\ getHueLightIds # {}
\* the guards of Lantern.updateHueLights before it acts
HueActs == focused /\ hueReady /\ getHueLightIds # {}

\* Lantern.applyWorkspaceColor, run on the state as the handler left it (the
\* primed settings, path and focus): updateStatusBar, applyColor,
\* updateHueLights
applyWorkspaceColor ==
    LET currentColor ==
            IF currentWorkspacePath' # NoPath /\ getEnabled'
            THEN getCurrentWorkspaceColor(getWorkspaceColor(currentWorkspacePath)')
            ELSE Undefined
        done == updateHueLights(currentColor, getHueDefaultColor')
    IN  /\ statusBarText' = IF getEnabled' THEN "$(lantern-on)" ELSE "$(lantern-off)"
        /\ IF currentWorkspacePath' = NoPath
           THEN UNCHANGED colorCustomizations
           ELSE colorCustomizations' = applyColor(currentColor)
        /\ lights' = IF HueActs' /\ done.kind # "caught" THEN done ELSE lights

\* what a handler that is no window or workspace event leaves alone
sameWindow == <<currentWorkspacePath, focused, hueService>>
\* the settings no handler of the model writes
readOnlySettings == <<peacockMode, overrideDebuggingColors, hueDefaultColor, hueLightIds>>

\* activate has run: the status bar item exists and the commands and
\* listeners are registered
activated == statusBarText # ""

\* the record of a handler or function run: its name, the path and the colour
\* it was given or returned
Done(name, path, color) == [name |-> name, path |-> path, color |-> color]

\* a faulty variant of NewState: the flag is written back as it was
NewStateSame(currentState) == currentState
\* const newState = !currentState
NewState(currentState) == ~currentState

\* activate: new Lantern(), lantern.applyWorkspaceColor()
activate ==
    /\ ~activated
    /\ UNCHANGED <<settings, sameWindow, configEvent>>
    /\ applyWorkspaceColor
    /\ lastOp' = Done("activate", currentWorkspacePath, NotSet)
    /\ UNCHANGED notCfg

\* command lantern.toggle
toggleLantern ==
    /\ activated
    /\ enabled' = NewState(getEnabled)
    /\ configEvent' = TRUE
    /\ UNCHANGED <<lanternColor, workspaceColorMap, peacockColor>>
    /\ UNCHANGED <<readOnlySettings, sameWindow>>
    /\ applyWorkspaceColor
    /\ lastOp' = Done("toggleLantern", currentWorkspacePath, NotSet)
    /\ UNCHANGED notCfg

\* command lantern.resetWorkspaceColor
resetWorkspaceColor ==
    /\ activated
    /\ UNCHANGED <<enabled, readOnlySettings, sameWindow>>
    /\ IF currentWorkspacePath = NoPath
       THEN UNCHANGED <<lanternColor, workspaceColorMap, peacockColor, configEvent,
                        statusBarText, colorCustomizations, lights>>
       ELSE /\ setWorkspaceColor(currentWorkspacePath, NotSet)
            /\ applyWorkspaceColor
    /\ lastOp' = Done("resetWorkspaceColor", currentWorkspacePath, NotSet)
    /\ UNCHANGED notCfg

\* a call of setWorkspaceColor with a path and a valid colour, as the commands
\* that assign a colour, the language-model tool and the tests make it
CallSetWorkspaceColor ==
    /\ activated
    /\ \E workspacePath \in Paths, color \in StoredColors :
          /\ setWorkspaceColor(workspacePath, color)
          /\ lastOp' = Done("setWorkspaceColor", workspacePath, color)
    /\ UNCHANGED <<enabled, readOnlySettings, sameWindow, statusBarText,
                   colorCustomizations, lights>>
    /\ UNCHANGED notCfg

\* a call of getWorkspaceColor
CallGetWorkspaceColor ==
    /\ activated
    /\ \E workspacePath \in Paths :
          lastOp' = Done("getWorkspaceColor", workspacePath, getWorkspaceColor(workspacePath))
    /\ UNCHANGED <<settings, sameWindow, statusBarText, colorCustomizations, lights,
                   configEvent>>
    /\ UNCHANGED notCfg

\* the listener of vscode.workspace.onDidChangeConfiguration, for a change
\* under lantern.*
OnDidChangeConfiguration ==
    /\ activated
    /\ configEvent
    /\ configEvent' = FALSE
    /\ UNCHANGED <<settings, sameWindow>>
    /\ applyWorkspaceColor
    /\ lastOp' = Done("onDidChangeConfiguration", currentWorkspacePath, NotSet)
    /\ UNCHANGED notCfg

\* the listener of vscode.window.onDidChangeWindowState: the window gains or
\* loses the focus
OnDidChangeWindowState ==
    /\ activated
    /\ focused' = ~focused
    /\ UNCHANGED <<settings, currentWorkspacePath, hueService, configEvent>>
    /\ IF focused'
       THEN applyWorkspaceColor
       ELSE UNCHANGED <<statusBarText, colorCustomizations, lights>>
    /\ lastOp' = Done("onDidChangeWindowState", currentWorkspacePath, NotSet)
    /\ UNCHANGED notCfg

\* the listeners of vscode.workspace.onDidChangeWorkspaceFolders: the folder
\* "/a" is opened or closed
OnDidChangeWorkspaceFolders ==
    /\ activated
    /\ currentWorkspacePath' = IF currentWorkspacePath = NoPath THEN "/a" ELSE NoPath
    /\ UNCHANGED <<settings, focused, hueService, configEvent>>
    /\ applyWorkspaceColor
    /\ lastOp' = Done("onDidChangeWorkspaceFolders", currentWorkspacePath', NotSet)
    /\ UNCHANGED notCfg

NoCustomizations == [key \in Keys |-> NotSet]

CfgIdle ==
    /\ enabled = TRUE
    /\ lanternColor = NotSet
    /\ workspaceColorMap = [path \in Paths |-> NotSet]
    /\ peacockMode = FALSE
    /\ peacockColor = NotSet
    /\ overrideDebuggingColors = FALSE
    /\ hueDefaultColor = Black
    /\ hueLightIds = {}
    /\ colorCustomizations = NoCustomizations
    /\ currentWorkspacePath = NoPath
    /\ statusBarText = ""
    /\ focused = FALSE
    /\ hueEnabled = FALSE
    /\ hueBridgeIp = ""
    /\ hueUsername = ""
    /\ bridge = NoBridge
    /\ lights = [Undefined EXCEPT !.kind = "untouched"]
    /\ configEvent = FALSE
    /\ lastOp = Done("none", NoPath, NotSet)

\* the settings as the user or earlier sessions left them (the status bar keys
\* absent, or left behind by an earlier session), the folder "/a" open in a
\* focused window, Hue enabled and configured with one light selected or none,
\* the extension constructed and not yet activated
CfgInit ==
    /\ enabled \in BOOLEAN
    /\ lanternColor \in {NotSet, Red, ShortRed, AlphaRed}
    /\ workspaceColorMap \in {[path \in Paths |-> NotSet],
                              [path \in Paths |-> IF path = "/a" THEN Green ELSE NotSet]}
    /\ peacockMode \in BOOLEAN
    /\ peacockColor = NotSet
    /\ overrideDebuggingColors \in BOOLEAN
    /\ hueDefaultColor \in {Black, Red}
    /\ hueLightIds \in {{}, {"1"}}
    /\ colorCustomizations \in
          {[NoCustomizations EXCEPT !["editor.background"] = <<"#", "1", "1", "1">>],
           [key \in Keys |-> IF key = "editor.background" THEN NotSet ELSE Green]}
    /\ currentWorkspacePath = "/a"
    /\ statusBarText = ""
    /\ focused = TRUE
    /\ hueEnabled = TRUE
    /\ hueBridgeIp = KnownBridge.ip
    /\ hueUsername = KnownBridge.username
    /\ bridge = KnownBridge
    /\ lights = [Undefined EXCEPT !.kind = "untouched"]
    /\ configEvent = FALSE
    /\ lastOp = Done("none", NoPath, NotSet)

CfgNext ==
    \/ activate
    \/ toggleLantern
    \/ resetWorkspaceColor
    \/ CallSetWorkspaceColor
    \/ CallGetWorkspaceColor
    \/ OnDidChangeConfiguration
    \/ OnDidChangeWindowState
    \/ OnDidChangeWorkspaceFolders

---------------------------------------------------------------------------
(* suggestColorWithAI: lantern.ts, ai.ts *)

\* what suggestColor returns: a colour that passed isValidHexColor, or
\* undefined
Blue == <<"#", "0", "0", "7", "a", "c", "c">>
Suggestions == {Blue, NotSet}

\* no call of suggestColorWithAI
AiNone == [pc |-> "idle", hexPreviousColor |-> NotSet, suggestion |-> NotSet,
           before |-> NotSet]
AiIdle == ai = AiNone

\* const previousColor = this.getCurrentWorkspaceColor();
\* const hexPreviousColor = previousColor ? rgbToHex(previousColor) : undefined;
\* color is what getWorkspaceColor returned
HexPreviousColor(color) ==
    LET previousColor == getCurrentWorkspaceColor(color)
    IN  IF previousColor.kind = "rgb" THEN rgbToHex(previousColor) ELSE NotSet

\* suggestColorWithAI up to the end of `await setEnabled(true)`: the input box
\* was not cancelled, suggestColor returned
suggestColorWithAI ==
    /\ activated
    /\ ai.pc = "idle"
    /\ \E suggestion \in Suggestions :
          IF currentWorkspacePath = NoPath
          THEN /\ ai' = [AiNone EXCEPT !.pc = "returned"]
               /\ UNCHANGED <<enabled, configEvent>>
          ELSE LET stored == getWorkspaceColor(currentWorkspacePath)
               IN  IF suggestion = NotSet
                   THEN /\ ai' = [AiNone EXCEPT !.pc = "returned"]
                        /\ UNCHANGED <<enabled, configEvent>>
                   ELSE /\ ai' = [pc |-> "enabled",
                                  hexPreviousColor |-> HexPreviousColor(stored),
                                  suggestion |-> suggestion,
                                  before |-> stored]
                        /\ enabled' = TRUE
                        /\ configEvent' = (configEvent \/ ~getEnabled)
    /\ UNCHANGED <<lanternColor, workspaceColorMap, peacockColor, readOnlySettings,
                   sameWindow, statusBarText, colorCustomizations, lights, lastOp>>
    /\ UNCHANGED notAi

\* await setWorkspaceColor(this.currentWorkspacePath, suggestion.color), then
\* the message with 'Keep' and 'Revert' is shown
ApplySuggestion ==
    /\ ai.pc = "enabled"
    /\ setWorkspaceColor(currentWorkspacePath, ai.suggestion)
    /\ ai' = [ai EXCEPT !.pc = "asked"]
    /\ lastOp' = Done("setWorkspaceColor", currentWorkspacePath, ai.suggestion)
    /\ UNCHANGED <<enabled, readOnlySettings, sameWindow, statusBarText,
                   colorCustomizations, lights>>
    /\ UNCHANGED notAi

\* the user chooses 'Keep' or dismisses the message
Keep ==
    /\ ai.pc = "asked"
    /\ ai' = [ai EXCEPT !.pc = "kept"]
    /\ UNCHANGED <<cfgVars, notAi>>

\* the user chooses 'Revert':
\* await setWorkspaceColor(this.currentWorkspacePath, hexPreviousColor)
Revert ==
    /\ ai.pc = "asked"
    /\ setWorkspaceColor(currentWorkspacePath, ai.hexPreviousColor)
    /\ ai' = [ai EXCEPT !.pc = "reverted"]
    /\ lastOp' = Done("setWorkspaceColor", currentWorkspacePath, ai.hexPreviousColor)
    /\ UNCHANGED <<enabled, readOnlySettings, sameWindow, statusBarText,
                   colorCustomizations, lights>>
    /\ UNCHANGED notAi

\* the settings as the user left them, a colour stored in any of the forms
\* Lantern accepts, the folder "/a" open, no call of suggestColorWithAI yet
AiInit ==
    /\ enabled \in BOOLEAN
    /\ lanternColor \in {NotSet, Red, ShortRed, UpperRed, AlphaRed}
    /\ workspaceColorMap \in [Paths -> {NotSet, Green, ShortRed}]
    /\ peacockMode \in BOOLEAN
    /\ peacockColor \in {NotSet, Green}
    /\ overrideDebuggingColors = FALSE
    /\ hueDefaultColor = Black
    /\ hueLightIds = {}
    /\ colorCustomizations = NoCustomizations
    /\ currentWorkspacePath = "/a"
    /\ statusBarText = ""
    /\ focused = TRUE
    /\ hueEnabled = FALSE
    /\ hueBridgeIp = ""
    /\ hueUsername = ""
    /\ bridge = NoBridge
    /\ lights = [Undefined EXCEPT !.kind = "untouched"]
    /\ configEvent = FALSE
    /\ lastOp = Done("none", NoPath, NotSet)
    /\ ai = AiNone

AiNext ==
    \/ activate
    \/ suggestColorWithAI
    \/ ApplySuggestion
    \/ Keep
    \/ Revert
    \/ OnDidChangeConfiguration

---------------------------------------------------------------------------
---------------------------------------------------------------------------
(* setWorkspaceColorTool: tools.ts *)

\* the parameter color: valid in the three forms, not a hex colour, empty
ToolColors == {Green, ShortRed, AlphaRed, <<"r", "e", "d">>, <<>>}
\* the parameter workspacePath: left out, empty, a path
NoParam == "undefined"
ToolPaths == {NoParam, ""} \cup Paths

\* no call of setWorkspaceColorTool yet
ToolNone == [color |-> <<>>, workspacePath |-> NoParam, open |-> NoPath,
             target |-> NoPath, success |-> FALSE, threw |-> FALSE,
             completed |-> FALSE]
ToolIdle == tool = ToolNone

\* a faulty variant of ToolCatch: the error escapes
ToolCatchNone(result) == result
\* the catch clause of setWorkspaceColorTool: an error becomes
\* { success: false }
ToolCatch(result) ==
    IF result.threw THEN [result EXCEPT !.success = FALSE, !.threw = FALSE] ELSE result

\* the language-model tool set_workspace_color.  rejects: the settings write
\* of setWorkspaceColor fails and its promise is rejected.
setWorkspaceColorTool ==
    /\ activated
    /\ \E color \in ToolColors, workspacePath \in ToolPaths, rejects \in BOOLEAN :
          LET targetWorkspacePath ==
                  IF workspacePath # NoParam THEN workspacePath ELSE currentWorkspacePath
              call == [color |-> color, workspacePath |-> workspacePath,
                       open |-> currentWorkspacePath, target |-> targetWorkspacePath,
                       success |-> FALSE, threw |-> FALSE, completed |-> FALSE]
          IN  IF ~isValidHexColor(color) \/ targetWorkspacePath = NoPath
              THEN /\ tool' = ToolCatch(call)
                   /\ UNCHANGED <<lanternColor, workspaceColorMap, peacockColor, configEvent>>
              ELSE IF rejects
              THEN /\ tool' = ToolCatch([call EXCEPT !.threw = TRUE])
                   /\ UNCHANGED <<lanternColor, workspaceColorMap, peacockColor, configEvent>>
              ELSE /\ setWorkspaceColor(targetWorkspacePath, color)
                   /\ tool' = ToolCatch([call EXCEPT !.success = TRUE, !.completed = TRUE])
    /\ lastOp' = Done("setWorkspaceColorTool", currentWorkspacePath, NotSet)
    /\ UNCHANGED <<enabled, readOnlySettings, sameWindow, statusBarText,
                   colorCustomizations, lights>>
    /\ UNCHANGED notTool

\* the settings as the user left them, the folder "/a" open, the tool not yet
\* called
ToolInit ==
    /\ enabled \in BOOLEAN
    /\ lanternColor \in {NotSet, Red}
    /\ workspaceColorMap \in [Paths -> {NotSet, Red}]
    /\ peacockMode \in BOOLEAN
    /\ peacockColor = NotSet
    /\ overrideDebuggingColors = FALSE
    /\ hueDefaultColor = Black
    /\ hueLightIds = {}
    /\ colorCustomizations = NoCustomizations
    /\ currentWorkspacePath = "/a"
    /\ statusBarText = ""
    /\ focused = TRUE
    /\ hueEnabled = FALSE
    /\ hueBridgeIp = ""
    /\ hueUsername = ""
    /\ bridge = NoBridge
    /\ lights = [Undefined EXCEPT !.kind = "untouched"]
    /\ configEvent = FALSE
    /\ lastOp = Done("none", NoPath, NotSet)
    /\ tool = ToolNone

ToolNext ==
    \/ activate
    \/ setWorkspaceColorTool
    \/ OnDidChangeConfiguration
    \/ OnDidChangeWorkspaceFolders

---------------------------------------------------------------------------
(* enableHue: lantern.ts, hue.ts *)

\* the addresses discoverBridges can return, and the lists it returns
BridgeIps == {"10.0.0.1", "10.0.0.2"}
Discovered == {<<>>, <<"10.0.0.1">>, <<"10.0.0.2">>, <<"10.0.0.1", "10.0.0.2">>}
\* the username a bridge hands out when its button was pressed
NewUsername == "user2"
\* what the bridge answers to createUser: a success entry, an error entry
\* (link button not pressed), an entry with neither, no answer in time
Responses == {"success", "error", "neither", "timeout"}
\* the lights of the bridge the user can pick
LightIds == {"1", "2"}

\* no call of enableHue
EnableHueNone == [pc |-> "idle", selectedBridge |-> "", tested |-> FALSE,
                  created |-> FALSE, outcome |-> "none",
                  before |-> <<FALSE, "", "", NoBridge>>]
HueIdle == enableHueCall = EnableHueNone

\* the call ends without enabling Hue
EndedWith(outcome) == [enableHueCall EXCEPT !.pc = "ended", !.outcome = outcome]

\* what an enableHue step leaves alone apart from the Hue service
notHueService == <<enabled, lanternColor, workspaceColorMap, peacockMode, peacockColor,
                   overrideDebuggingColors, hueDefaultColor, currentWorkspacePath, focused,
                   lastOp>>
appliedVars == <<statusBarText, colorCustomizations, lights>>

\* enableHue to the end of `await hueService.testConnection()`; ok is what
\* the bridge answered
enableHue ==
    /\ activated
    /\ enableHueCall.pc = "idle"
    /\ \E ok \in BOOLEAN :
          LET testConnection == isConfigured /\ ok
          IN  enableHueCall' = [EnableHueNone EXCEPT
                                  !.pc = IF testConnection THEN "setHueEnabled" ELSE "discover",
                                  !.tested = testConnection,
                                  !.before = hueService]
    /\ UNCHANGED <<hueService, hueLightIds, configEvent, notHueService, appliedVars>>
    /\ UNCHANGED notHue

\* await hueService.discoverBridges()
discoverBridges ==
    /\ enableHueCall.pc = "discover"
    /\ \E bridges \in Discovered :
          enableHueCall' =
              IF Len(bridges) = 0 THEN EndedWith("noBridges")
              ELSE IF Len(bridges) > 1 THEN [enableHueCall EXCEPT !.pc = "pick"]
              ELSE [enableHueCall EXCEPT !.pc = "button", !.selectedBridge = bridges[1]]
    /\ UNCHANGED <<hueService, hueLightIds, configEvent, notHueService, appliedVars>>
    /\ UNCHANGED notHue

\* await vscode.window.showQuickPick(bridgeOptions): a bridge, or nothing
PickBridge ==
    /\ enableHueCall.pc = "pick"
    /\ \E selection \in BridgeIps \cup {""} :
          enableHueCall' =
              IF selection = "" THEN EndedWith("pickCancelled")
              ELSE [enableHueCall EXCEPT !.pc = "button", !.selectedBridge = selection]
    /\ UNCHANGED <<hueService, hueLightIds, configEvent, notHueService, appliedVars>>
    /\ UNCHANGED notHue

\* await vscode.window.showInformationMessage('Press the button ...')
PressButton ==
    /\ enableHueCall.pc = "button"
    /\ \E buttonPressed \in {"Continue", "Cancel", ""} :
          enableHueCall' =
              IF buttonPressed # "Continue" THEN EndedWith("buttonCancelled")
              ELSE [enableHueCall EXCEPT !.pc = "createUser"]
    /\ UNCHANGED <<hueService, hueLightIds, configEvent, notHueService, appliedVars>>
    /\ UNCHANGED notHue

\* a faulty variant of createUserSaves: the bridge is saved whatever it answered
createUserSavesAlways(response) == TRUE
\* Hue.createUser: if (result.success) { ... await this.saveBridgeConfig(...) }
createUserSaves(response) == response = "success"

\* await hueService.createUser(selectedBridge.ip): on success saveBridgeConfig
\* and the username is returned; an error entry and a timeout throw, which
\* the inner catch of enableHue reports; otherwise undefined is returned
createUser ==
    /\ enableHueCall.pc = "createUser"
    /\ \E response \in Responses :
          /\ IF createUserSaves(response)
             THEN /\ hueBridgeIp' = enableHueCall.selectedBridge
                  /\ hueUsername' = NewUsername
                  /\ bridge' = [ip |-> enableHueCall.selectedBridge, username |-> NewUsername]
                  /\ configEvent' = TRUE
             ELSE UNCHANGED <<hueBridgeIp, hueUsername, bridge, configEvent>>
          /\ enableHueCall' =
                IF response = "success"
                THEN [enableHueCall EXCEPT !.pc = "setHueEnabled", !.created = TRUE]
                ELSE EndedWith("createUserFailed")
    /\ UNCHANGED <<hueEnabled, hueLightIds, notHueService, appliedVars>>
    /\ UNCHANGED notHue

\* await setHueEnabled(true), on either path
EnableAfterSuccess ==
    /\ enableHueCall.pc = "setHueEnabled"
    /\ hueEnabled' = TRUE
    /\ configEvent' = TRUE
    /\ enableHueCall' = [enableHueCall EXCEPT !.pc = "selectHueLights"]
    /\ UNCHANGED <<hueBridgeIp, hueUsername, bridge, hueLightIds, notHueService, appliedVars>>
    /\ UNCHANGED notHue

\* await this.selectHueLights(): getLights fails or finds none or nothing is
\* picked (selectedLights empty), or the picked lights are stored and
\* applyWorkspaceColor runs
selectHueLights ==
    /\ enableHueCall.pc = "selectHueLights"
    /\ enableHueCall' = [enableHueCall EXCEPT !.pc = "ended", !.outcome = "enabled"]
    /\ UNCHANGED <<hueService, notHueService>>
    /\ \E selectedLights \in SUBSET LightIds :
          IF selectedLights = {}
          THEN UNCHANGED <<hueLightIds, configEvent, appliedVars>>
          ELSE /\ hueLightIds' = selectedLights
               /\ configEvent' = TRUE
               /\ applyWorkspaceColor
    /\ UNCHANGED notHue

\* the settings as earlier sessions left them: Hue on or off, no bridge, a
\* bridge address without a username, or a bridge set up; enableHue not yet
\* called
HueInit ==
    /\ enabled = TRUE
    /\ lanternColor \in {NotSet, Red}
    /\ workspaceColorMap = [path \in Paths |-> NotSet]
    /\ peacockMode = FALSE
    /\ peacockColor = NotSet
    /\ overrideDebuggingColors = FALSE
    /\ hueDefaultColor = Black
    /\ hueLightIds \in {{}, {"1"}}
    /\ colorCustomizations = NoCustomizations
    /\ currentWorkspacePath = "/a"
    /\ statusBarText = ""
    /\ focused = TRUE
    /\ hueEnabled \in BOOLEAN
    /\ \E saved \in {NoBridge, KnownBridge, [KnownBridge EXCEPT !.username = ""]} :
          /\ hueBridgeIp = saved.ip
          /\ hueUsername = saved.username
          /\ bridge = IF saved.ip # "" /\ saved.username # "" THEN saved ELSE NoBridge
    /\ lights = [Undefined EXCEPT !.kind = "untouched"]
    /\ configEvent = FALSE
    /\ lastOp = Done("none", NoPath, NotSet)
    /\ enableHueCall = EnableHueNone

HueNext ==
    \/ activate
    \/ enableHue
    \/ discoverBridges
    \/ PickBridge
    \/ PressButton
    \/ createUser
    \/ EnableAfterSuccess
    \/ selectHueLights
    \/ OnDidChangeConfiguration

---------------------------------------------------------------------------
(* Overlapping calls of setWorkspaceColor: config.ts *)

\* the callers: two windows, or two calls made in one window without waiting
\* for the first; each sets the colour of its own path
Callers == {"w1", "w2"}
CallerPath(w) == IF w = "w1" THEN "/a" ELSE "/b"

\* no call of setWorkspaceColor under way
NoCall == [pc |-> "idle", path |-> NoPath, color |-> NotSet,
           workspaceColorMap |-> [path \in Paths |-> NotSet]]
RaceIdle == setCalls = [w \in Callers |-> NoCall]

\* setWorkspaceColor to its first await: the peacock and lantern.color
\* branches make their one write; the map branch copies the map as the caller
\* sees it, sets its entry in the copy and hands the copy to
\* updateWorkspaceColorMap
BeginSetWorkspaceColor ==
    \E w \in Callers, color \in StoredColors :
        /\ setCalls[w].pc = "idle"
        /\ IF getPeacockMode \/ HasWorkspaceSpecificSetting(getWorkspaceSpecificColor)
           THEN /\ setWorkspaceColor(CallerPath(w), color)
                /\ setCalls' = [setCalls EXCEPT ![w] =
                                  [NoCall EXCEPT !.pc = "done", !.path = CallerPath(w),
                                                 !.color = color]]
           ELSE /\ setCalls' = [setCalls EXCEPT ![w] =
                                  [pc |-> "updating", path |-> CallerPath(w),
                                   color |-> color,
                                   workspaceColorMap |->
                                      [getWorkspaceColorMap EXCEPT ![CallerPath(w)] = color]]]
                /\ UNCHANGED <<lanternColor, workspaceColorMap, peacockColor, configEvent>>
        /\ UNCHANGED <<enabled, readOnlySettings, sameWindow, statusBarText,
                       colorCustomizations, lights, lastOp>>
        /\ UNCHANGED notRace

\* config.update('workspaceColor', workspaceColorMap, Global) takes effect:
\* the whole map is replaced by the caller's copy
updateWorkspaceColorMap ==
    \E w \in Callers :
        /\ setCalls[w].pc = "updating"
        /\ workspaceColorMap' = setCalls[w].workspaceColorMap
        /\ configEvent' = TRUE
        /\ setCalls' = [setCalls EXCEPT ![w].pc = "done"]
        /\ UNCHANGED <<enabled, lanternColor, peacockColor, readOnlySettings, sameWindow,
                       statusBarText, colorCustomizations, lights, lastOp>>
        /\ UNCHANGED notRace

\* the map as earlier calls left it, no workspace-specific colour, peacockMode
\* off, no call under way
RaceInit ==
    /\ enabled = TRUE
    /\ lanternColor = NotSet
    /\ workspaceColorMap \in [Paths -> {NotSet, Red, Green}]
    /\ peacockMode = FALSE
    /\ peacockColor = NotSet
    /\ overrideDebuggingColors = FALSE
    /\ hueDefaultColor = Black
    /\ hueLightIds = {}
    /\ colorCustomizations = NoCustomizations
    /\ currentWorkspacePath = "/a"
    /\ statusBarText = ""
    /\ focused = TRUE
    /\ hueEnabled = FALSE
    /\ hueBridgeIp = ""
    /\ hueUsername = ""
    /\ bridge = NoBridge
    /\ lights = [Undefined EXCEPT !.kind = "untouched"]
    /\ configEvent = FALSE
    /\ lastOp = Done("none", NoPath, NotSet)
    /\ setCalls = [w \in Callers |-> NoCall]

RaceNext ==
    \/ BeginSetWorkspaceColor
    \/ updateWorkspaceColorMap

---------------------------------------------------------------------------
(* Calls of Lantern.applyColor: lantern.ts *)

\* a value of a customization key that is none of Lantern's colours
Grey == <<"#", "1", "1", "1">>
\* the arguments of applyColor: a colour, or undefined
AppliedColors == {Undefined} \cup {hexToRgb(color) : color \in StoredColors}

\* no call of applyColor
NoApply == [pc |-> "idle", color |-> Undefined, before |-> NoCustomizations,
            wrote |-> FALSE]
ApplyIdle == applyCall = NoApply

\* one call of applyColor, to its end
CallApplyColor ==
    \E color \in AppliedColors :
        /\ colorCustomizations' = applyColor(color)
        /\ applyCall' = [pc |-> "done", color |-> color,
                         before |-> getColorCustomizations,
                         wrote |-> hasChanges(color)]
        /\ UNCHANGED <<settings, currentWorkspacePath, statusBarText, focused, hueService,
                       lights, configEvent, lastOp>>
        /\ UNCHANGED notApply

\* the folder "/a" open; workbench.colorCustomizations as the user and
\* earlier runs left it, overrideDebuggingColors on or off
ApplyInit ==
    /\ enabled = TRUE
    /\ lanternColor = NotSet
    /\ workspaceColorMap = [path \in Paths |-> NotSet]
    /\ peacockMode = FALSE
    /\ peacockColor = NotSet
    /\ overrideDebuggingColors \in BOOLEAN
    /\ hueDefaultColor = Black
    /\ hueLightIds = {}
    /\ colorCustomizations \in [Keys -> {NotSet, Grey}]
    /\ currentWorkspacePath = "/a"
    /\ statusBarText = ""
    /\ focused = TRUE
    /\ hueEnabled = FALSE
    /\ hueBridgeIp = ""
    /\ hueUsername = ""
    /\ bridge = NoBridge
    /\ lights = [Undefined EXCEPT !.kind = "untouched"]
    /\ configEvent = FALSE
    /\ lastOp = Done("none", NoPath, NotSet)
    /\ applyCall = NoApply

ApplyNext == CallApplyColor

---------------------------------------------------------------------------
(* The specifications *)

\* the state of the colour engine's specifications when none of them runs
CmdIdle == HexIdle /\ RtIdle /\ GenIdle /\ FnIdle

\* no handler has run, no command is under way
HandlersIdle == CfgIdle /\ AiIdle /\ ToolIdle /\ HueIdle /\ RaceIdle /\ ApplyIdle

InitHex == HexInit /\ RtIdle /\ GenIdle /\ FnIdle /\ HandlersIdle
InitRt  == RtInit /\ HexIdle /\ GenIdle /\ FnIdle /\ HandlersIdle
InitGen == GenInit /\ HexIdle /\ RtIdle /\ FnIdle /\ HandlersIdle
InitFn  == FnInit /\ HexIdle /\ RtIdle /\ GenIdle /\ HandlersIdle
InitCfg == CfgInit /\ CmdIdle /\ AiIdle /\ ToolIdle /\ HueIdle /\ RaceIdle /\ ApplyIdle
InitAi  == AiInit /\ CmdIdle /\ ToolIdle /\ HueIdle /\ RaceIdle /\ ApplyIdle
InitTool == ToolInit /\ CmdIdle /\ AiIdle /\ HueIdle /\ RaceIdle /\ ApplyIdle
InitHue == HueInit /\ CmdIdle /\ AiIdle /\ ToolIdle /\ RaceIdle /\ ApplyIdle
InitRace == RaceInit /\ CmdIdle /\ AiIdle /\ ToolIdle /\ HueIdle /\ ApplyIdle
InitApply == ApplyInit /\ CmdIdle /\ AiIdle /\ ToolIdle /\ HueIdle /\ RaceIdle

SpecHex == InitHex /\ [][HexNext]_vars

SpecRt == InitRt /\ [][RtNext]_vars

\* a call runs to its end: the loop is synchronous code
SpecGen == InitGen /\ [][GenNext]_vars /\ WF_vars(GenNext)

SpecFn == InitFn /\ [][FnNext]_vars

SpecCfg == InitCfg /\ [][CfgNext]_vars

SpecAi == InitAi /\ [][AiNext]_vars

SpecTool == InitTool /\ [][ToolNext]_vars

SpecHue == InitHue /\ [][HueNext]_vars

SpecRace == InitRace /\ [][RaceNext]_vars

SpecApply == InitApply /\ [][ApplyNext]_vars

---------------------------------------------------------------------------
(* Claims about the hex strings, under SpecHex and SpecRt *)

HexAlphabet == {"0", "1", "2", "3", "4", "5", "6", "7", "8", "9",
                "a", "b", "c", "d", "e", "f", "A", "B", "C", "D", "E", "F"}
\* '#' followed by 3, 6 or 8 characters of [0-9a-fA-F]
HashAndDigits(s) ==
    /\ Len(s) \in {4, 7, 9}
    /\ s[1] = "#"
    /\ \A i \in 2..Len(s) : s[i] \in HexAlphabet
\* s without its first character when that is '#'
Body(s) == IF Len(s) > 0 /\ s[1] = "#" THEN Tail(s) ELSE s

\* C2, as claimed: every string isValidHexColor accepts is parsed by hexToRgb
\* without error.
C2_ValidImpliesParsed ==
    (site = "hexToRgb" /\ isValidHexColor(hex)) => out.kind = "rgb"

\* C3: isValidHexColor(s) is true exactly when s is '#' followed by 3, 6 or 8
\* characters of [0-9a-fA-F]; the strings of the test suite are judged as the
\* tests expect: '#ff0000', '#f00', '#ff0000ff' valid; 'ff0000', '#gg0000',
\* '#ff00', '#ff000', '#ff00000', '#ff000000f', '' and 'red' invalid.
C3_ValidExactly ==
    /\ site = "isValidHexColor" => (out.kind = "true" <=> HashAndDigits(hex))
    /\ isValidHexColor(<<"#", "f", "f", "0", "0", "0", "0">>)
    /\ isValidHexColor(<<"#", "f", "0", "0">>)
    /\ isValidHexColor(<<"#", "f", "f", "0", "0", "0", "0", "f", "f">>)
    /\ ~isValidHexColor(<<"f", "f", "0", "0", "0", "0">>)
    /\ ~isValidHexColor(<<"#", "g", "g", "0", "0", "0", "0">>)
    /\ ~isValidHexColor(<<"#", "f", "f", "0", "0">>)
    /\ ~isValidHexColor(<<"#", "f", "f", "0", "0", "0">>)
    /\ ~isValidHexColor(<<"#", "f", "f", "0", "0", "0", "0", "0">>)
    /\ ~isValidHexColor(<<"#", "f", "f", "0", "0", "0", "0", "0", "0", "f">>)
    /\ ~isValidHexColor(<<>>)
    /\ ~isValidHexColor(<<"r", "e", "d">>)

\* C3, witness: an 8-digit body with an uppercase digit was accepted
C3_Witness ==
    /\ site = "isValidHexColor"
    /\ out.kind = "true"
    /\ Len(hex) = 9
    /\ \E i \in 2..9 : hex[i] = "F"

\* C4, as claimed: for every '#RRGGBBAA', hexToRgb succeeds and returns the
\* colour RRGGBB encodes, the alpha digits ignored.
C4_EightDigitsParsed ==
    (site = "hexToRgb" /\ Len(hex) = 9 /\ HashAndDigits(hex)) =>
        out = Rgb(parseInt16(SubSeq(hex, 2, 3)),
                  parseInt16(SubSeq(hex, 4, 5)),
                  parseInt16(SubSeq(hex, 6, 7)))

\* C5: hexToRgb(rgbToHex(x)) = x, and rgbToHex(x) is '#' and six lowercase hex
\* digits, two per channel, zero-padded.
C5_HexRoundTrip ==
    /\ rtpc \in {"formatted", "parsed"} =>
          /\ Len(hexOut) = 7
          /\ hexOut[1] = "#"
          /\ \A i \in 2..7 : hexOut[i] \in LowerHex
          /\ 16 * DigitValue(hexOut[2]) + DigitValue(hexOut[3]) = rgbIn.r
          /\ 16 * DigitValue(hexOut[4]) + DigitValue(hexOut[5]) = rgbIn.g
          /\ 16 * DigitValue(hexOut[6]) + DigitValue(hexOut[7]) = rgbIn.b
    /\ rtpc = "parsed" => rgbBack = rgbIn

\* C5, witness: a channel below 16 (padded) and one with letter digits came back
C5_Witness ==
    /\ rtpc = "parsed"
    /\ rgbIn.r = 9 /\ rgbIn.g = 255 /\ rgbIn.b = 0
    /\ hexOut = <<"#", "0", "9", "f", "f", "0", "0">>
    /\ rgbBack = rgbIn

\* C6, as claimed: hexToRgb fails whenever the input, an optional leading '#'
\* removed, has a length other than 3, 6 or 8 or holds a character that is not
\* a hex digit, a '#' that is not the first character included.
C6_MalformedFails ==
    (/\ site = "hexToRgb"
     /\ \/ Len(Body(hex)) \notin {3, 6, 8}
        \/ \E i \in 1..Len(Body(hex)) : Body(hex)[i] \notin HexAlphabet)
    => out.kind = "throw"

CallSites == {"getCurrentWorkspaceColor", "getCurrentThemeColor", "parseCssColor",
              "updateHueLights"}

\* C7: no call site lets hexToRgb's error escape; where hexToRgb fails the call
\* site goes on with no colour or its fallback.
C7_ErrorsCaught ==
    /\ site \in CallSites => out.kind # "throw"
    /\ (site = "getCurrentWorkspaceColor" /\ hexToRgb(hex).kind = "throw")
          => out = Undefined
    /\ (site = "getCurrentThemeColor" /\ hexToRgb(hex).kind = "throw")
          => out = Rgb(0, 122, 204)
    /\ (site = "parseCssColor" /\ hexToRgb(trim(hex)).kind = "throw")
          => out \in {Null, Rgb(128, 128, 128)}
    /\ (site = "updateHueLights" /\ hexToRgb(hex).kind = "throw")
          => out.kind \in {"caught", "setLightColor", "turnOffLights"}

\* C7, witness: getCurrentWorkspaceColor met a stored colour that passed
\* isValidHexColor and made hexToRgb fail, and returned no colour
C7_Witness ==
    /\ site = "getCurrentWorkspaceColor"
    /\ isValidHexColor(hex)
    /\ hexToRgb(hex).kind = "throw"
    /\ out = Undefined

---------------------------------------------------------------------------
(* Claims about the generator, under SpecGen *)

\* the distance of a drawn candidate to the existing colour
Dist(x) == calculateColorDistance(x, existingOklch)
Furthest(i) == \A j \in 1..Len(drawn) : Dist(drawn[j]) <= Dist(drawn[i])

\* C8, as claimed: with an existing colour, the value returned is the RGB
\* conversion of a drawn candidate of largest distance to it.
C8_ReturnsFurthestDrawn ==
    (gpc = "done" /\ existingOklch # NoOklch) =>
        \E i \in 1..Len(drawn) : Furthest(i) /\ returned = oklchToRgb(drawn[i])

\* C8, amended: with an existing colour, if some drawn candidate is at a
\* distance above 0 the value returned is the RGB conversion of the first drawn
\* candidate of largest distance; if none is (nothing was drawn, or every
\* candidate coincides with the existing colour) baseColor is returned.
C8_ReturnsFurthestOrBase ==
    (gpc = "done" /\ existingOklch # NoOklch) =>
        IF \E i \in 1..Len(drawn) : Dist(drawn[i]) > 0
        THEN \E i \in 1..Len(drawn) :
                /\ Furthest(i)
                /\ \A j \in 1..(i - 1) : Dist(drawn[j]) < Dist(drawn[i])
                /\ returned = oklchToRgb(drawn[i])
        ELSE returned = baseColor

\* C8, witness: two candidates were drawn, the first the further one, and its
\* conversion was returned
C8_Witness ==
    /\ gpc = "done"
    /\ existingOklch # NoOklch
    /\ Len(drawn) = 2
    /\ Dist(drawn[1]) > Dist(drawn[2])
    /\ Dist(drawn[2]) > 0
    /\ returned = oklchToRgb(drawn[1])

\* C9: with an existing colour, at most maxAttempts candidates are drawn, none
\* after the first whose distance exceeds 0.5, and the call terminates.
C9_BoundedSearch ==
    /\ [](existingOklch # NoOklch =>
            /\ Len(drawn) <= maxAttempts
            /\ \A i \in 1..(Len(drawn) - 1) : Dist(drawn[i]) <= 4500 * 4500)
    /\ <>(gpc = "done")

\* C9, witness: the call ended on a candidate beyond 0.5 drawn second, with
\* attempts to spare
C9_Witness ==
    /\ gpc = "done"
    /\ existingOklch # NoOklch
    /\ Len(drawn) = 2
    /\ Dist(drawn[2]) > 4500 * 4500
    /\ maxAttempts > 2

ReturnedOklch == rgbToOklch(RgbOf(returned))
\* a distance of 0.1
DistanceTenth == 900 * 900

\* C11, as claimed: for every existing colour, the colour returned is at an
\* OKLCH distance above 0.1 from it, both taken through rgbToOklch.
C11_ReturnedIsDistinct ==
    (gpc = "done" /\ existingOklch # NoOklch) =>
        calculateColorDistance(ReturnedOklch, existingOklch) > DistanceTenth

\* C11, amended: with an existing colour, if some drawn candidate is at a
\* distance above 0.1 from it, the colour returned is the conversion of such a
\* candidate; if every draw falls within 0.1, which the random draws allow, the
\* colour returned can be within 0.1 of the existing colour.
C11_DistinctWhenDrawn ==
    (/\ gpc = "done"
     /\ existingOklch # NoOklch
     /\ \E i \in 1..Len(drawn) : Dist(drawn[i]) > DistanceTenth)
    => \E i \in 1..Len(drawn) :
          /\ Dist(drawn[i]) > DistanceTenth
          /\ returned = oklchToRgb(drawn[i])

\* C11, witness: the first candidate fell within 0.1 of the existing colour,
\* the second beyond, and the second was returned: as an RGB colour it is
\* beyond 0.1 too
C11_Witness ==
    /\ gpc = "done"
    /\ existingOklch # NoOklch
    /\ Len(drawn) = 2
    /\ Dist(drawn[1]) > 0
    /\ Dist(drawn[1]) <= DistanceTenth
    /\ Dist(drawn[2]) > DistanceTenth
    /\ returned = oklchToRgb(drawn[2])
    /\ calculateColorDistance(ReturnedOklch, existingOklch) > DistanceTenth

---------------------------------------------------------------------------
(* Claims about the numeric functions, under SpecFn *)

\* the shorter arc between two hues of [0, 360], in degrees
Arc(h1, h2) == Min({Abs(h1 - h2), 360 - Abs(h1 - h2)})

\* C12: for two OKLCH colours with hues in [0, 360], calculateColorDistance is
\* sqrt((2 |l1 - l2|)^2 + |c1 - c2|^2 + (arc / 180)^2), arc the shorter arc
\* between the hues, in [0, 180]; hue 0 and hue 360 at equal lightness and
\* chroma are at a distance below 0.1.  (Both sides are squared and scaled by
\* 9000^2.)
C12_DistanceFormula ==
    fnOut.kind = "distance" =>
        LET a   == fnIn.color1
            b   == fnIn.color2
            arc == Arc(a.h, b.h)
        IN  /\ arc \in 0..180
            /\ fnOut.forward = (9 * 2 * Abs(a.l - b.l)) * (9 * 2 * Abs(a.l - b.l))
                               + (9 * Abs(a.c - b.c)) * (9 * Abs(a.c - b.c))
                               + (50 * arc) * (50 * arc)
            /\ (a.l = b.l /\ a.c = b.c /\ {a.h, b.h} = {0, 360})
                  => fnOut.forward < DistanceTenth

\* C12, witness: hues 355 and 5, ten degrees apart round the circle, with
\* lightness 0.4 and 0.6 and chroma 0.1 and 0.2
C12_Witness ==
    /\ fnOut.kind = "distance"
    /\ fnIn.color1 = Oklch(400, 100, 355)
    /\ fnIn.color2 = Oklch(600, 200, 5)
    /\ fnOut.forward = 3600 * 3600 + 900 * 900 + 500 * 500

\* C13: calculateColorDistance(c, c) = 0 and calculateColorDistance(a, b) =
\* calculateColorDistance(b, a).
C13_IdentityAndSymmetry ==
    fnOut.kind = "distance" =>
        /\ fnOut.self = 0
        /\ fnIn.color1 = fnIn.color2 => fnOut.forward = 0
        /\ fnOut.forward = fnOut.back

\* C13, witness: two colours whose hues differ by more than 180 degrees, one
\* way negative, at the same positive distance both ways
C13_Witness ==
    /\ fnOut.kind = "distance"
    /\ fnIn.color1.h - fnIn.color2.h < -180
    /\ fnIn.color1.l # fnIn.color2.l
    /\ fnOut.forward = fnOut.back
    /\ fnOut.forward > 0

\* C14, as claimed: for every OKLCH input, out of gamut or not, oklchToRgb
\* returns three integer channels, each in [0, 255].
C14_ChannelsInRange ==
    fnOut.kind = "channels" =>
        /\ fnOut.rgb.r.cls = "fin" /\ fnOut.rgb.r.v \in 0..MaxChannel
        /\ fnOut.rgb.g.cls = "fin" /\ fnOut.rgb.g.v \in 0..MaxChannel
        /\ fnOut.rgb.b.cls = "fin" /\ fnOut.rgb.b.v \in 0..MaxChannel

\* C15: getContrastingTextColor returns '#ffffff' or '#000000': '#000000' for
\* (255,255,255), (255,255,200), (200,200,200) and (255,165,0), '#ffffff' for
\* (0,0,0), (50,50,50) and (128,0,0).
C15_TextColor ==
    /\ fnOut.kind = "text" =>
          /\ fnOut.color \in {White, Black}
          /\ fnIn.background \in {Rgb(255, 255, 255), Rgb(255, 255, 200),
                                  Rgb(200, 200, 200), Rgb(255, 165, 0)}
                => fnOut.color = Black
          /\ fnIn.background \in {Rgb(0, 0, 0), Rgb(50, 50, 50), Rgb(128, 0, 0)}
                => fnOut.color = White
    /\ getContrastingTextColor(Rgb(255, 255, 255)) = Black
    /\ getContrastingTextColor(Rgb(255, 255, 200)) = Black
    /\ getContrastingTextColor(Rgb(200, 200, 200)) = Black
    /\ getContrastingTextColor(Rgb(255, 165, 0)) = Black
    /\ getContrastingTextColor(Rgb(0, 0, 0)) = White
    /\ getContrastingTextColor(Rgb(50, 50, 50)) = White
    /\ getContrastingTextColor(Rgb(128, 0, 0)) = White

\* C15, witness: the light orange background got black text
C15_Witness ==
    /\ fnOut.kind = "text"
    /\ fnIn.background = Rgb(255, 165, 0)
    /\ fnOut.color = Black

\* C16: rgbToXy returns the fallback (0.3127, 0.3290) exactly when X + Y + Z
\* is 0, which happens only for (0,0,0); for every other input x and y are in
\* [0, 1].
C16_FallbackOnlyForBlack ==
    fnOut.kind = "xy" =>
        LET xyz == Xyz(fnIn.rgb)
            sum == xyz.X + xyz.Y + xyz.Z
        IN  /\ fnOut = D65 <=> sum = 0
            /\ sum = 0 <=> fnIn.rgb = Rgb(0, 0, 0)
            /\ fnIn.rgb # Rgb(0, 0, 0) =>
                  /\ 0 <= fnOut.x /\ fnOut.x <= 1000000
                  /\ 0 <= fnOut.y /\ fnOut.y <= 1000000

\* C16, witness: black got the fallback
C16_Witness ==
    /\ fnOut.kind = "xy"
    /\ fnIn.rgb = Rgb(0, 0, 0)
    /\ fnOut.x = 312700 /\ fnOut.y = 329000

---------------------------------------------------------------------------
(* Claims about the settings and the handlers, under SpecCfg *)

\* C17: getWorkspaceColor(path) returns lantern.color whenever it is set,
\* whatever the entry of path in lantern.workspaceColor; the entry only when
\* lantern.color is not set; undefined when neither is set.
C17_WorkspaceSpecificFirst ==
    lastOp.name = "getWorkspaceColor" =>
        /\ lanternColor # NotSet => lastOp.color = lanternColor
        /\ (lanternColor = NotSet /\ workspaceColorMap[lastOp.path] # NotSet)
              => lastOp.color = workspaceColorMap[lastOp.path]
        /\ (lanternColor = NotSet /\ workspaceColorMap[lastOp.path] = NotSet)
              => lastOp.color = NotSet

\* C17, witness: lantern.color and the entry of the path were both set, to
\* different colours, and lantern.color was returned
C17_Witness ==
    /\ lastOp.name = "getWorkspaceColor"
    /\ lanternColor = Red
    /\ workspaceColorMap[lastOp.path] = Green
    /\ lastOp.color = Red

\* C18, as claimed: for any path p, any valid colour c and any prior settings,
\* after setWorkspaceColor(p, c) getWorkspaceColor(p) returns c.
C18_SetThenGet ==
    lastOp.name = "setWorkspaceColor" => getWorkspaceColor(lastOp.path) = lastOp.color

\* C18, amended: with lantern.peacockMode off, after setWorkspaceColor(p, c)
\* getWorkspaceColor(p) returns c; with lantern.peacockMode on,
\* setWorkspaceColor(p, c) writes c to peacock.color and leaves lantern.color
\* and lantern.workspaceColor as they were.
C18_SetThenGetUnlessPeacock ==
    /\ [](lastOp.name = "setWorkspaceColor" =>
            IF peacockMode
            THEN peacockColor = lastOp.color
            ELSE getWorkspaceColor(lastOp.path) = lastOp.color)
    /\ [][(lastOp'.name = "setWorkspaceColor" /\ peacockMode)
            => UNCHANGED <<lanternColor, workspaceColorMap>>]_vars

\* C18, witness: peacockMode off, lantern.color was set and now holds the new
\* colour, the path has no entry in the map, and getWorkspaceColor gives the
\* new colour
C18_Witness ==
    /\ lastOp.name = "setWorkspaceColor"
    /\ ~peacockMode
    /\ lastOp.color = Green
    /\ lanternColor = Green
    /\ workspaceColorMap[lastOp.path] = NotSet
    /\ getWorkspaceColor(lastOp.path) = Green

\* C19, as claimed: after resetWorkspaceColor with a workspace open,
\* getWorkspaceColor of the current path returns undefined, whatever
\* lantern.color and the entry of the path were before.
C19_ResetClears ==
    (lastOp.name = "resetWorkspaceColor" /\ lastOp.path # NoPath)
        => getWorkspaceColor(lastOp.path) = NotSet

\* C20: toggleLantern flips lantern.enabled and leaves lantern.color and
\* lantern.workspaceColor as they were, and so does the configuration
\* listener it wakes.
C20_ToggleKeepsColors ==
    [][/\ lastOp'.name = "toggleLantern" => enabled' = ~enabled
       /\ lastOp'.name \in {"toggleLantern", "onDidChangeConfiguration"}
             => UNCHANGED <<lanternColor, workspaceColorMap>>]_vars

\* C20, witness: Lantern was toggled off in a workspace with both settings
\* set: the status bar colour is gone, the settings are there
C20_Witness ==
    /\ lastOp.name = "toggleLantern"
    /\ ~enabled
    /\ lanternColor = Red
    /\ workspaceColorMap["/a"] = Green
    /\ currentWorkspacePath = "/a"
    /\ colorCustomizations["statusBar.background"] = NotSet

\* the last handler run was one that ends with applyWorkspaceColor, and it
\* ran it
Applied ==
    \/ lastOp.name \in {"activate", "toggleLantern", "onDidChangeConfiguration",
                        "onDidChangeWorkspaceFolders"}
    \/ lastOp.name = "onDidChangeWindowState" /\ focused
    \/ lastOp.name = "resetWorkspaceColor" /\ lastOp.path # NoPath

\* no workspace colour applies: no folder open, Lantern disabled, or no colour
\* assigned
NoColorApplies ==
    \/ currentWorkspacePath = NoPath
    \/ ~getEnabled
    \/ getWorkspaceColor(currentWorkspacePath) = NotSet

\* C21, as claimed: Hue enabled and configured with a light selected, the
\* window focused, no workspace colour applies: applyWorkspaceColor sets the
\* lights to lantern.hueDefaultColor, and turns them off only when that
\* colour is #000000.
C21_DefaultColorSent ==
    (Applied /\ HueActs /\ NoColorApplies) =>
        lights = IF getHueDefaultColor = Black
                 THEN [Undefined EXCEPT !.kind = "turnOffLights"]
                 ELSE [hexToRgb(getHueDefaultColor) EXCEPT !.kind = "setLightColor"]

\* C22: a handler that ends in a window without the focus leaves the lights
\* as they were: no configuration change, workspace change or command makes
\* an unfocused window send setLightColor or turnOffLights.
C22_UnfocusedLeavesLights ==
    [][~focused' => lights' = lights]_vars

\* C22, witness: the configuration listener ran applyWorkspaceColor in an
\* unfocused window with Hue ready and a light selected; no workspace colour
\* applies any more, and the lights still show the colour sent earlier
C22_Witness ==
    /\ lastOp.name = "onDidChangeConfiguration"
    /\ ~focused
    /\ hueReady /\ getHueLightIds # {}
    /\ NoColorApplies
    /\ lights.kind = "setLightColor"

---------------------------------------------------------------------------
(* Claims about suggestColorWithAI, under SpecAi *)

\* C23, as claimed: after 'Revert' the stored colour of the workspace is
\* exactly the value it had before the suggestion was applied, the case of no
\* stored colour included.
C23_RevertRestores ==
    ai.pc = "reverted" => getWorkspaceColor(currentWorkspacePath) = ai.before

---------------------------------------------------------------------------
(* Claims about setWorkspaceColorTool, under SpecTool *)

\* the call had a colour that fails isValidHexColor, or neither a
\* workspacePath parameter nor an open workspace
ToolRefuses(call) ==
    \/ ~isValidHexColor(call.color)
    \/ call.workspacePath = NoParam /\ call.open = NoPath

\* C24: setWorkspaceColorTool never throws; it returns success = false and
\* writes no setting when the colour fails isValidHexColor or when there is
\* neither a workspacePath parameter nor an open workspace; it returns
\* success = true only after setWorkspaceColor has completed for the target
\* path.
C24_ToolNeverThrows ==
    /\ [](lastOp.name = "setWorkspaceColorTool" =>
            /\ ~tool.threw
            /\ ToolRefuses(tool) => ~tool.success
            /\ tool.success =>
                  /\ tool.completed
                  /\ tool.target \in Paths
                  /\ IF peacockMode
                     THEN peacockColor = tool.color
                     ELSE getWorkspaceColor(tool.target) = tool.color)
    /\ [][(lastOp'.name = "setWorkspaceColorTool" /\ ToolRefuses(tool'))
            => UNCHANGED <<settings, colorCustomizations>>]_vars

\* C24, witness: the tool was called with a valid colour and no workspacePath
\* while no workspace was open, and returned success = false
C24_Witness ==
    /\ lastOp.name = "setWorkspaceColorTool"
    /\ isValidHexColor(tool.color)
    /\ tool.workspacePath = NoParam
    /\ tool.open = NoPath
    /\ ~tool.success
    /\ ~tool.threw

---------------------------------------------------------------------------
(* Claims about the Hue intensity, under SpecFn *)

\* C25: for every stored intensity i in 0..100, setLightColor sends
\* on = (i > 0) and a bri in 1..254, equal to round(i / 100 * 254) when
\* i > 0 and to 254 at i = 100; setHueIntensity stores only values in
\* 0..100.
C25_BrightnessInRange ==
    /\ fnOut.kind = "state" =>
          /\ fnOut.on = (fnIn.intensity > 0)
          /\ fnOut.bri \in 1..254
          /\ fnIn.intensity > 0 => fnOut.bri = (254 * fnIn.intensity + 50) \div 100
          /\ fnIn.intensity = 100 => fnOut.bri = 254
    /\ fnOut.kind = "stored" =>
          /\ fnOut.value.cls = "fin"
          /\ fnOut.value.v \in 0..100

\* C25, witness: intensity 1, the smallest that lights the lamps: 2.54 is
\* rounded to 3
C25_Witness ==
    /\ fnIn.fn = "setLightColor"
    /\ fnIn.intensity = 1
    /\ fnOut.kind = "state"
    /\ fnOut.on
    /\ fnOut.bri = 3

---------------------------------------------------------------------------
(* Claims about enableHue, under SpecHue *)

\* the outcomes of enableHue that must change nothing
HueGaveUp == {"noBridges", "pickCancelled", "buttonCancelled", "createUserFailed"}

---------------------------------------------------------------------------
(* Claims about the status bar, under SpecCfg *)

\* every handler that was triggered has completed, with a workspace open
Settled == activated /\ ~configEvent /\ currentWorkspacePath # NoPath

\* a stored colour Lantern.getCurrentWorkspaceColor takes as valid: it passes
\* isValidHexColor and hexToRgb parses it
ValidStored(c) == c # NotSet /\ isValidHexColor(c) /\ hexToRgb(c).kind = "rgb"

---------------------------------------------------------------------------
(* Claims about overlapping calls of setWorkspaceColor, under SpecRace *)

\* C28, as claimed: when two calls of setWorkspaceColor for different paths
\* overlap, after both have completed both paths hold their new colour in
\* lantern.workspaceColor, and the entries of other paths are unchanged.
C28_NoLostUpdate ==
    (\A w \in Callers : setCalls[w].pc = "done") =>
        /\ \A w \in Callers : getWorkspaceColorMap[setCalls[w].path] = setCalls[w].color
        /\ \A path \in Paths \ {setCalls[w].path : w \in Callers} :
              \A w \in Callers :
                  getWorkspaceColorMap[path] = setCalls[w].workspaceColorMap[path]

---------------------------------------------------------------------------
(* Claims about applyColor *)

\* C29, as claimed: whenever applyWorkspaceColor completes in an open folder
\* with no colour to apply (Lantern disabled, or no colour assigned), none of
\* the four keys Lantern writes remains in workbench.colorCustomizations,
\* whatever overrideDebuggingColors is.
C29_NoLanternKeyRemains ==
    (Applied /\ currentWorkspacePath # NoPath /\ NoColorApplies) =>
        \A key \in LanternKeys : getColorCustomizations[key] = NotSet

\* C30: a call of applyColor changes only Lantern's keys.  With a colour it
\* writes statusBar.background = the colour's hex value and
\* statusBar.foreground = its contrasting text colour, and the two
\* statusBar.debugging* keys get these values when overrideDebuggingColors is
\* on and keep theirs when it is off.  Without a colour every key keeps its
\* value or is deleted, and only Lantern's keys are deleted; when none of
\* Lantern's keys is there no settings write is made.  Every other key keeps
\* its value.
C30_OnlyLanternKeys ==
    applyCall.pc = "done" =>
        LET color == applyCall.color
            before == applyCall.before
            now == getColorCustomizations
        IN  /\ \A key \in Keys \ LanternKeys : now[key] = before[key]
            /\ color.kind = "rgb" =>
                  /\ applyCall.wrote
                  /\ now["statusBar.background"] = rgbToHex(color)
                  /\ now["statusBar.foreground"] = getContrastingTextColor(color)
                  /\ now["statusBar.debuggingBackground"] =
                        IF getOverrideDebuggingColors THEN rgbToHex(color)
                        ELSE before["statusBar.debuggingBackground"]
                  /\ now["statusBar.debuggingForeground"] =
                        IF getOverrideDebuggingColors THEN getContrastingTextColor(color)
                        ELSE before["statusBar.debuggingForeground"]
            /\ color.kind # "rgb" =>
                  /\ \A key \in Keys : now[key] \in {before[key], NotSet}
                  /\ now["statusBar.background"] = NotSet
                  /\ now["statusBar.foreground"] = NotSet
                  /\ (\A key \in LanternKeys : before[key] = NotSet) =>
                        ~applyCall.wrote /\ now = before

\* C30 witness: a colour was removed while statusBar.background and a key
\* that is not Lantern's were set, and the other key is still there
C30_Witness ==
    /\ applyCall.pc = "done"
    /\ applyCall.color.kind # "rgb"
    /\ applyCall.wrote
    /\ applyCall.before["statusBar.background"] # NotSet
    /\ applyCall.before["editor.background"] = Grey
    /\ getColorCustomizations["statusBar.background"] = NotSet
    /\ getColorCustomizations["editor.background"] = Grey

====
